---- MODULE Spec2Model ----
(*************************************************************************)
(* minibackup: the archive codec of BackupEngine (scan, filter, pack,    *)
(* unpack) with its primitives CRC32, XOR, RC4 and RLE.                  *)
(*                                                                       *)
(* Bytes are the integers 0..255.  A buffer (std::vector<char>, char[],  *)
(* std::string) is a sequence of bytes.  32-bit and 64-bit integers are  *)
(* kept as the little-endian byte sequences the code reinterprets them   *)
(* as, so no value ever leaves the range of the model checker's          *)
(* integers.                                                             *)
(*************************************************************************)
EXTENDS Integers, Sequences, FiniteSets, TLC

\* ---------------------------------------------------------------------
\* Bytes and bit operations
\* ---------------------------------------------------------------------

ByteRange == 256

RECURSIVE XorBits(_, _, _)
\* a ^ b on the low n bits of two naturals
XorBits(a, b, n) ==
    IF n = 0 THEN 0
    ELSE ((a + b) % 2) + 2 * XorBits(a \div 2, b \div 2, n - 1)

\* a ^ b for two bytes (char ^ char, truncated to 8 bits)
XorByte(a, b) == XorBits(a, b, 8)

\* static_cast<signed char>: the value of a byte held in a (signed) char
SignedChar(b) == IF b >= 128 THEN b - ByteRange ELSE b

\* the C++ % operator on ints: the result has the sign of the dividend
CRem(a, m) == IF a >= 0 THEN a % m ELSE -((-a) % m)

\* the buffer of n bytes whose k-th byte is f[k], as a sequence
Buffer(f, n) == SubSeq(f, 1, n)

\* reinterpret_cast<const char*>(&v), v a little-endian unsigned of n bytes
RECURSIVE LEBytes(_, _)
LEBytes(v, n) ==
    IF n = 0 THEN <<>> ELSE <<v % ByteRange>> \o LEBytes(v \div ByteRange, n - 1)

\* ---------------------------------------------------------------------
\* CRC32 (include/CRC32.h).  crc is the little-endian 4-byte sequence of
\* the uint32_t.
\* ---------------------------------------------------------------------

\* 0xEDB88320, little-endian
polynomial == <<32, 131, 184, 237>>

\* crc >> 1
Shr1(c) == << (c[1] \div 2) + 128 * (c[2] % 2),
              (c[2] \div 2) + 128 * (c[3] % 2),
              (c[3] \div 2) + 128 * (c[4] % 2),
              (c[4] \div 2) >>

\* one round of the inner loop: mask = -(crc & 1); crc = (crc >> 1) ^ (polynomial & mask)
CrcBit(c) ==
    LET s == Shr1(c)
    IN  IF c[1] % 2 = 1
        THEN <<XorByte(s[1], polynomial[1]), XorByte(s[2], polynomial[2]),
               XorByte(s[3], polynomial[3]), XorByte(s[4], polynomial[4])>>
        ELSE s

RECURSIVE CrcBits(_, _)
CrcBits(c, n) == IF n = 0 THEN c ELSE CrcBits(CrcBit(c), n - 1)

\* the body of the outer loop: crc ^= byte, then eight rounds
CrcByte(c, byte) == CrcBits(<<XorByte(c[1], byte), c[2], c[3], c[4]>>, 8)

\* the outer loop over data[lo..hi], the first half then the second, so the
\* bytes are consumed in index order
RECURSIVE CrcLoop(_, _, _, _)
CrcLoop(c, data, lo, hi) ==
    IF lo > hi THEN c
    ELSE IF lo = hi THEN CrcByte(c, data[lo])
    ELSE LET mid == (lo + hi) \div 2
         IN  CHOOSE r \in { CrcLoop(first, data, mid + 1, hi) :
                              first \in {CrcLoop(c, data, lo, mid)} } : TRUE

\* CRC32::calculate: initial 0xFFFFFFFF, final ~crc
CRC32calculate(data) ==
    LET c == CrcLoop(<<255, 255, 255, 255>>, data, 1, Len(data))
    IN  <<255 - c[1], 255 - c[2], 255 - c[3], 255 - c[4]>>

\* ---------------------------------------------------------------------
\* RLE (BackupEngine.cpp)
\* ---------------------------------------------------------------------

\* the inner while loop of rleCompress without its test count < 255, count
\* held in an int: a run is counted up to 256
RunLengthUncapped(input, i) ==
    CHOOSE count \in 1..256 :
        /\ \A m \in 1..(count - 1) : i + m <= Len(input) /\ input[i + m] = input[i]
        /\ \/ count = 256
           \/ i + count > Len(input)
           \/ input[i + count] # input[i]

\* the inner while loop of rleCompress started at input[i]: count grows while
\* the next byte exists, equals input[i] and count < 255; the result is the
\* count at which the loop condition first fails
RunLength(input, i) ==
    CHOOSE count \in 1..255 :
        /\ \A m \in 1..(count - 1) : i + m <= Len(input) /\ input[i + m] = input[i]
        /\ \/ count = 255
           \/ i + count > Len(input)
           \/ input[i + count] # input[i]

RECURSIVE rleCompressFrom(_, _)
rleCompressFrom(input, i) ==
    IF i > Len(input) THEN <<>>
    ELSE LET count == RunLength(input, i)
         IN  <<count, input[i]>> \o rleCompressFrom(input, i + count)

rleCompress(input) == rleCompressFrom(input, 1)

\* rleDecompress with the count read as a (signed) char: a count >= 128 is
\* negative and its loop does not run
RECURSIVE rleDecompressSigned(_, _)
rleDecompressSigned(input, i) ==
    IF i + 1 > Len(input) THEN <<>>
    ELSE (IF input[i] >= 128 THEN <<>>
          ELSE Buffer([k \in 1..input[i] |-> input[i + 1]], input[i]))
             \o rleDecompressSigned(input, i + 2)

\* rleDecompress with a do-while as its inner loop: every pair gives at least
\* one copy of its value
RECURSIVE rleDecompressAtLeastOnce(_, _)
rleDecompressAtLeastOnce(input, i) ==
    IF i + 1 > Len(input) THEN <<>>
    ELSE (IF input[i] = 0 THEN <<input[i + 1]>>
          ELSE Buffer([k \in 1..input[i] |-> input[i + 1]], input[i]))
             \o rleDecompressAtLeastOnce(input, i + 2)

RECURSIVE rleDecompressFrom(_, _)
rleDecompressFrom(input, i) ==
    IF i + 1 > Len(input) THEN <<>>
    ELSE Buffer([k \in 1..input[i] |-> input[i + 1]], input[i])
             \o rleDecompressFrom(input, i + 2)

rleDecompress(input) == rleDecompressFrom(input, 1)

\* ---------------------------------------------------------------------
\* XOR cipher
\* ---------------------------------------------------------------------

\* xorEncrypt: buffer[k] ^= password[k % pwdLen]; the cycle starts at
\* password[0] in every call.  An empty password leaves the buffer alone.
xorEncrypt(buffer, password) ==
    IF password = <<>> THEN buffer
    ELSE Buffer([k \in 1..Len(buffer) |->
                   XorByte(buffer[k], password[((k - 1) % Len(password)) + 1])],
                Len(buffer))

\* ---------------------------------------------------------------------
\* RC4
\* ---------------------------------------------------------------------

\* class RC4 as constructed: unsigned char S[256]{}; int i = 0, j = 0
RC4new == [S |-> [k \in 0..(ByteRange - 1) |-> 0], i |-> 0, j |-> 0]

\* one round of the key-scheduling loop of RC4::init; st = [S, j] holds S and
\* j_temp.  key[.] is a char: where char is signed a byte >= 128 is negative,
\* j_temp can go negative, and S[j_temp] is then an access below the array.
\* Such a read yields the byte g that happens to lie there; the write goes
\* outside S.
KsaStep(st, key, iTemp, g) ==
    LET keyChar == SignedChar(key[(iTemp % Len(key)) + 1])
        j2 == CRem(st.j + st.S[iTemp] + keyChar, ByteRange)
    IN  [S |-> IF j2 >= 0
               THEN [st.S EXCEPT ![iTemp] = st.S[j2], ![j2] = st.S[iTemp]]
               ELSE [st.S EXCEPT ![iTemp] = g],
         j |-> j2]

\* the rounds i_temp = lo..hi in order: the first half, then the second on
\* its result
RECURSIVE KSA(_, _, _, _, _)
KSA(st, key, lo, hi, g) ==
    IF lo = hi THEN KsaStep(st, key, lo, g)
    ELSE LET mid == (lo + hi) \div 2
         IN  CHOOSE r \in { KSA(first, key, mid + 1, hi, g) :
                              first \in {KSA(st, key, lo, mid, g)} } : TRUE

\* RC4::init(key); an empty key returns at once and leaves the object as it is
RC4init(rc4, key, g) ==
    IF key = <<>> THEN rc4
    ELSE [S |-> KSA([S |-> [k \in 0..(ByteRange - 1) |-> k], j |-> 0],
                   key, 0, ByteRange - 1, g).S,
          i |-> 0, j |-> 0]

\* one round of the loop of RC4::cipher on buffer[k]; acc holds the object
\* and the bytes produced so far
RC4step(acc, buffer, k) ==
    LET i2 == (acc.rc4.i + 1) % ByteRange
        j2 == (acc.rc4.j + acc.rc4.S[i2]) % ByteRange
        S2 == [acc.rc4.S EXCEPT ![i2] = acc.rc4.S[j2], ![j2] = acc.rc4.S[i2]]
        ks == S2[(S2[i2] + S2[j2]) % ByteRange]
    IN  [rc4 |-> [S |-> S2, i |-> i2, j |-> j2],
         out |-> Append(acc.out, XorByte(buffer[k], ks))]

\* the rounds k = lo..hi in order: the first half, then the second on its
\* result
RECURSIVE RC4loop(_, _, _, _)
RC4loop(acc, buffer, lo, hi) ==
    IF lo > hi THEN acc
    ELSE IF lo = hi THEN RC4step(acc, buffer, lo)
    ELSE LET mid == (lo + hi) \div 2
         IN  CHOOSE r \in { RC4loop(first, buffer, mid + 1, hi) :
                              first \in {RC4loop(acc, buffer, lo, mid)} } : TRUE

\* RC4::cipher(buffer, size): the object after the call and the transformed
\* buffer
RC4cipher(rc4, buffer) == RC4loop([rc4 |-> rc4, out |-> <<>>], buffer, 1, Len(buffer))

\* ---------------------------------------------------------------------
\* Paths (std::string / fs::path as byte sequences)
\* ---------------------------------------------------------------------

Slash == 47

\* std::string::find(needle) != npos
Contains(hay, needle) ==
    \E k \in 0..(Len(hay) - Len(needle)) :
        SubSeq(hay, k + 1, k + Len(needle)) = needle

\* the component that names the parent directory
DotDot == <<46, 46>>

\* the positions of the separators of p
SlashPositions(p) == {k \in 1..Len(p) : p[k] = Slash}

\* fs::path(p).filename(): what follows the last separator
Filename(p) ==
    IF SlashPositions(p) = {} THEN p
    ELSE LET last == CHOOSE k \in SlashPositions(p) :
                         \A m \in SlashPositions(p) : m <= k
         IN  SubSeq(p, last + 1, Len(p))

\* ---------------------------------------------------------------------
\* Records and options (include/BackupEngine.h)
\* ---------------------------------------------------------------------

\* the mode fillMetadata stores in every record: 0644
DefaultMode == 420

\* the FilterOptions with nothing configured: the values each test of
\* checkFilter takes as unset (empty strings, type -1, 0, targetUid -1)
NoFilter == [nameContains |-> <<>>, pathContains |-> <<>>, type |-> -1,
             minSize |-> 0, maxSize |-> 0, startTime |-> 0, targetUid |-> -1]

\* checkFilter without its early return for directories: the size and time
\* tests are applied to every record
checkFilterNoExempt(record, opts) ==
    IF opts.nameContains # <<>> /\ ~Contains(Filename(record.relPath), opts.nameContains)
        THEN FALSE
    ELSE IF opts.pathContains # <<>> /\ ~Contains(record.relPath, opts.pathContains)
        THEN FALSE
    ELSE IF opts.type # -1
            /\ \/ opts.type = 0 /\ record.type # "REGULAR"
               \/ opts.type = 1 /\ record.type # "DIRECTORY"
               \/ opts.type = 2 /\ record.type # "SYMLINK"
        THEN FALSE
    ELSE IF \/ opts.minSize > 0 /\ record.size < opts.minSize
            \/ opts.maxSize > 0 /\ record.size > opts.maxSize
        THEN FALSE
    ELSE IF opts.startTime > 0 /\ record.mtime < opts.startTime THEN FALSE
    ELSE TRUE

\* checkFilter with its early return taken for symlinks as for directories:
\* neither the size nor the time test is applied to them
checkFilterLinkExempt(record, opts) ==
    IF opts.nameContains # <<>> /\ ~Contains(Filename(record.relPath), opts.nameContains)
        THEN FALSE
    ELSE IF opts.pathContains # <<>> /\ ~Contains(record.relPath, opts.pathContains)
        THEN FALSE
    ELSE IF opts.type # -1
            /\ \/ opts.type = 0 /\ record.type # "REGULAR"
               \/ opts.type = 1 /\ record.type # "DIRECTORY"
               \/ opts.type = 2 /\ record.type # "SYMLINK"
        THEN FALSE
    ELSE IF record.type \in {"DIRECTORY", "SYMLINK"} THEN TRUE
    ELSE IF \/ opts.minSize > 0 /\ record.size < opts.minSize
            \/ opts.maxSize > 0 /\ record.size > opts.maxSize
        THEN FALSE
    ELSE IF opts.startTime > 0 /\ record.mtime < opts.startTime THEN FALSE
    ELSE TRUE

\* checkFilter(record, opts)
checkFilter(record, opts) ==
    IF opts.nameContains # <<>> /\ ~Contains(Filename(record.relPath), opts.nameContains)
        THEN FALSE
    ELSE IF opts.pathContains # <<>> /\ ~Contains(record.relPath, opts.pathContains)
        THEN FALSE
    ELSE IF opts.type # -1
            /\ \/ opts.type = 0 /\ record.type # "REGULAR"
               \/ opts.type = 1 /\ record.type # "DIRECTORY"
               \/ opts.type = 2 /\ record.type # "SYMLINK"
        THEN FALSE
    ELSE IF record.type = "DIRECTORY" THEN TRUE
    ELSE IF record.type = "REGULAR"
            /\ \/ opts.minSize > 0 /\ record.size < opts.minSize
               \/ opts.maxSize > 0 /\ record.size > opts.maxSize
        THEN FALSE
    ELSE IF opts.startTime > 0 /\ record.mtime < opts.startTime THEN FALSE
    ELSE TRUE

\* ---------------------------------------------------------------------
\* The source tree.  An entry is what recursive_directory_iterator yields:
\*   rel      path relative to the source, kind in file/dir/link/other,
\*   follows  what the path is once symlinks are followed (file, dir, none),
\*   data     the bytes an ifstream on the path reads,
\*   target   the symlink's target string,
\*   readable whether an ifstream on the path opens,  mtime.
\* ---------------------------------------------------------------------

\* fs::is_regular_file(p), fs::is_directory(p): the status follows symlinks
IsRegularFile(e) == e.follows = "file"
IsDirectory(e) == e.follows = "dir"
\* fs::is_symlink(p): the status of the path itself
IsSymlink(e) == e.kind = "link"

\* fillMetadata: file_size and last_write_time with an error_code (0 on
\* error), and the fixed mode, uid and gid
fillMetadata(e) ==
    [size  |-> IF IsRegularFile(e) THEN Len(e.data) ELSE 0,
     mtime |-> IF e.follows = "none" THEN 0 ELSE e.mtime,
     mode  |-> DefaultMode, uid |-> 0, gid |-> 0]

\* the FileRecord scanDirectory builds for one entry of a directory source
\* (type "OTHER" stands for the `continue` of an unclassified entry)
ScanRecord(e) ==
    LET m == fillMetadata(e)
        type == IF IsRegularFile(e) THEN "REGULAR"
                ELSE IF IsDirectory(e) THEN "DIRECTORY"
                ELSE IF IsSymlink(e) THEN "SYMLINK"
                ELSE "OTHER"
    IN  [relPath |-> e.rel, absPath |-> e.rel, type |-> type,
         size |-> IF type = "REGULAR" THEN m.size ELSE 0,
         linkTarget |-> IF type = "SYMLINK" THEN e.target ELSE <<>>,
         mode |-> m.mode, uid |-> m.uid, gid |-> m.gid, mtime |-> m.mtime]

RECURSIVE ScanFrom(_, _, _)
ScanFrom(entries, k, opts) ==
    IF k > Len(entries) THEN <<>>
    ELSE LET record == ScanRecord(entries[k])
         IN  (IF record.type # "OTHER" /\ checkFilter(record, opts)
              THEN <<record>> ELSE <<>>) \o ScanFrom(entries, k + 1, opts)

\* BackupEngine::scanDirectory(sourcePath, filter)
scanDirectory(source, opts) ==
    IF ~source.exists THEN <<>>
    ELSE IF source.single
        THEN LET e == source.entries[1]
                 m == fillMetadata(e)
                 record == [relPath |-> Filename(e.rel), absPath |-> e.rel,
                            type |-> "REGULAR", size |-> m.size, linkTarget |-> <<>>,
                            mode |-> m.mode, uid |-> m.uid, gid |-> m.gid,
                            mtime |-> m.mtime]
             IN  IF checkFilter(record, opts) THEN <<record>> ELSE <<>>
    ELSE ScanFrom(source.entries, 1, opts)

\* ---------------------------------------------------------------------
\* The container: header and frames (BackupEngine::packFiles)
\* ---------------------------------------------------------------------

MagicLen == 8
MagicNone == <<77, 73, 78, 73, 66, 75, 49, 48>>     \* "MINIBK10"
MagicXor  == <<77, 73, 78, 73, 66, 75, 95, 88>>     \* "MINIBK_X"
MagicRc4  == <<77, 73, 78, 73, 66, 75, 95, 82>>     \* "MINIBK_R"

\* the magic packFiles writes for encMode
PackMagic(mode) ==
    IF mode = "RC4" THEN MagicRc4
    ELSE IF mode = "XOR" THEN MagicXor
    ELSE MagicNone

\* char compFlag = (compMode == CompressionMode::RLE) ? 1 : 0
PackCompFlag(comp) == IF comp = "RLE" THEN 1 ELSE 0

\* the bytes packFiles loads for a record: the file's bytes (none when the
\* ifstream does not open), the link target, nothing for a directory
LoadData(source, rec) ==
    IF rec.type = "REGULAR"
    THEN LET found == {k \in 1..Len(source.entries) : source.entries[k].rel = rec.absPath}
         IN  IF found = {} THEN <<>>
             ELSE LET e == source.entries[CHOOSE k \in found : TRUE]
                  IN  IF e.readable /\ IsRegularFile(e) THEN e.data ELSE <<>>
    ELSE IF rec.type = "SYMLINK" THEN rec.linkTarget
    ELSE <<>>

\* if (compMode == RLE && !fileData.empty()) fileData = rleCompress(fileData)
PackCompress(comp, data) ==
    IF comp = "RLE" /\ data # <<>> THEN rleCompress(data) ELSE data

\* uint32_t fileCRC = 0; if (!fileData.empty()) fileCRC = CRC32::calculate(...)
\* data is the payload as it will be written, before encryption
PackCRC(data) == IF data # <<>> THEN CRC32calculate(data) ELSE <<0, 0, 0, 0>>

\* uint8_t typeCode
TypeCode(type) == IF type = "REGULAR" THEN 1 ELSE IF type = "DIRECTORY" THEN 2 ELSE 3

\* the fields of one frame in the order packFiles appends them to metaBuffer
\* (1..6) and the payload (7), all before encryption
PackFields(rec, payload) ==
    << <<TypeCode(rec.type)>>,
       LEBytes(Len(rec.relPath), 8),
       rec.relPath,
       LEBytes(Len(payload), 8),
       PackCRC(payload),
       LEBytes(rec.mode, 4) \o LEBytes(rec.uid, 4) \o LEBytes(rec.gid, 4)
           \o LEBytes(rec.mtime, 8),
       payload >>

\* metaBuffer: the six meta fields in one buffer
MetaBuffer(fields) ==
    fields[1] \o fields[2] \o fields[3] \o fields[4] \o fields[5] \o fields[6]

\* whether packFiles encrypts with RC4 / with XOR
PackUsesRC4(mode, pwd) == mode = "RC4" /\ pwd # <<>>
PackUsesXOR(mode, pwd) == mode = "XOR" /\ pwd # <<>>

\* the encryption of one frame by packFiles: one call on the whole
\* metaBuffer, then one call on the payload when it is not empty.  The
\* result is the RC4 object afterwards and the bytes written.
PackEncrypt(rc4, mode, pwd, fields) ==
    LET meta == MetaBuffer(fields)
        payload == fields[7]
    IN  IF PackUsesRC4(mode, pwd)
        THEN LET m == RC4cipher(rc4, meta)
                 d == IF payload # <<>> THEN RC4cipher(m.rc4, payload)
                      ELSE [rc4 |-> m.rc4, out |-> <<>>]
             IN  [rc4 |-> d.rc4, out |-> m.out \o d.out]
        ELSE IF PackUsesXOR(mode, pwd)
        THEN [rc4 |-> rc4, out |-> xorEncrypt(meta, pwd) \o xorEncrypt(payload, pwd)]
        ELSE [rc4 |-> rc4, out |-> meta \o payload]

\* the RC4 object of the writer each time its cipher loop has consumed one
\* more field of the frame (the loop's state at the field boundaries)
RECURSIVE FieldStates(_, _, _)
FieldStates(rc4, fields, k) ==
    IF k > Len(fields) THEN <<>>
    ELSE LET after == RC4cipher(rc4, fields[k]).rc4
         IN  <<after>> \o FieldStates(after, fields, k + 1)

\* ---------------------------------------------------------------------
\* The reader's stream and fields (BackupEngine::unpack)
\* ---------------------------------------------------------------------

\* std::string magicStr(magic): the bytes up to the first NUL
RECURSIVE CStr(_)
CStr(b) == IF b = <<>> \/ b[1] = 0 THEN <<>> ELSE <<b[1]>> \o CStr(Tail(b))

\* MagicMode without its throw: a magic that is neither MINIBK_R nor MINIBK_X
\* is read as an unencrypted container
MagicModeLenient(magicStr) ==
    IF magicStr = MagicRc4 THEN "RC4"
    ELSE IF magicStr = MagicXor THEN "XOR"
    ELSE "NONE"

\* The cipher the magic selects; "UNKNOWN" stands for the throw of
\* "Unknown file format".
MagicMode(magicStr) ==
    IF magicStr = MagicRc4 THEN "RC4"
    ELSE IF magicStr = MagicXor THEN "XOR"
    ELSE IF magicStr # MagicNone THEN "UNKNOWN"
    ELSE "NONE"

\* in.read(buf, n) on the stream st = [pos, good, ...]: the bytes read, then
\* what the buffer held before (fill) where the stream ran short; a short
\* read sets failbit, and a stream that is not good reads nothing
StreamRead(arch, st, n, fill) ==
    LET avail == IF ~st.good THEN 0
                 ELSE IF Len(arch) - st.pos < n THEN Len(arch) - st.pos ELSE n
    IN  [buf  |-> SubSeq(arch, st.pos + 1, st.pos + avail) \o [k \in 1..(n - avail) |-> fill],
         pos  |-> st.pos + avail,
         good |-> st.good /\ avail = n]

\* the loop test of unpack written as in.good(): the end of the stream is
\* seen only once a read has failed
PeekGood(arch, st) == st.good

\* in.peek() != EOF
PeekNotEOF(arch, st) == st.good /\ st.pos < Len(arch)

\* the decryption unpack applies to a buffer it has read
UnpackDecrypt(mode, pwd, rc4, buf) ==
    IF mode = "RC4" THEN RC4cipher(rc4, buf)
    ELSE IF mode = "XOR" THEN [rc4 |-> rc4, out |-> xorEncrypt(buf, pwd)]
    ELSE [rc4 |-> rc4, out |-> buf]

\* The largest byte count a std::vector<char> can be given: from AllocLimit
\* on the constructor throws (std::bad_alloc / std::length_error).
AllocLimit == 65536

\* *reinterpret_cast<uint64_t*>(buf); every value from AllocLimit on is
\* reported as AllocLimit
DecodeLen(b) ==
    IF \A k \in 3..8 : b[k] = 0 THEN b[1] + ByteRange * b[2] ELSE AllocLimit

\* The reader while it decodes one frame: d = [pos, good, rc4, fields,
\* states, thrown]: the stream, the RC4 object, the buffers decoded so far in
\* the order they were decoded, the RC4 object after each (kept when the
\* cipher is RC4), and whether a std::vector could not be allocated.
FrameStart(pos, good, rc4) ==
    [pos |-> pos, good |-> good, rc4 |-> rc4, fields |-> <<>>, states |-> <<>>,
     thrown |-> FALSE]

\* one field: in.read(buf, n), then the decryption of the n bytes of buf
ReadField(arch, mode, pwd, d, n, fill) ==
    IF d.thrown THEN d
    ELSE LET r == StreamRead(arch, d, n, fill)
             x == UnpackDecrypt(mode, pwd, d.rc4, r.buf)
         IN  [pos |-> r.pos, good |-> r.good, rc4 |-> x.rc4,
              fields |-> Append(d.fields, x.out),
              states |-> Append(d.states, IF mode = "RC4" THEN x.rc4 ELSE <<>>),
              thrown |-> FALSE]

\* std::vector<char> buf(len), len decoded from field lenField, then the
\* field of len bytes; with len = 0 nothing is read and nothing decrypted
ReadSized(arch, mode, pwd, d, lenField) ==
    IF d.thrown THEN d
    ELSE IF DecodeLen(d.fields[lenField]) >= AllocLimit THEN [d EXCEPT !.thrown = TRUE]
    ELSE ReadField(arch, mode, pwd, d, DecodeLen(d.fields[lenField]), 0)

\* One pass of the loop body of unpack up to the payload: typeBuf, lenBuf,
\* pathBuf, sizeBuf, crcBuf, metaBlock, fileData.  u is the byte an
\* uninitialised stack buffer holds where a read ran short.
DecodeFrame(arch, mode, pwd, start, u) ==
    ReadSized(arch, mode, pwd,
      ReadField(arch, mode, pwd,
        ReadField(arch, mode, pwd,
          ReadField(arch, mode, pwd,
            ReadSized(arch, mode, pwd,
              ReadField(arch, mode, pwd,
                ReadField(arch, mode, pwd, start, 1, u),
              8, u),
            2),
          8, u),
        4, u),
      20, u),
    4)

\* what unpack takes from a decoded frame d
FrameTypeCode(d) == d.fields[1][1]
FrameRelPath(d) == d.fields[3]
FrameMeta(d) == d.fields[6]
\* FrameMismatch without its test dataSize > 0: the CRC is compared for every
\* frame
FrameMismatchAlways(d) == CRC32calculate(d.fields[7]) # d.fields[5]

\* if (dataSize > 0) { ... if (actualCRC != expectedCRC) ... }
FrameMismatch(d) == d.fields[7] # <<>> /\ CRC32calculate(d.fields[7]) # d.fields[5]
\* if (dataSize > 0) { ... if (isRLE) fileData = rleDecompress(fileData) }
FrameData(d, rle) ==
    IF d.fields[7] # <<>> /\ rle THEN rleDecompress(d.fields[7]) ELSE d.fields[7]

\* ---------------------------------------------------------------------
\* The destination.  fsys = [root, nodes]: whether destPath exists, and the
\* nodes below it, keyed by their path relative to destPath; a node is
\* [kind, data] with kind in file/dir/link and data the file's bytes or the
\* link's target.
\* ---------------------------------------------------------------------

EmptyFS == [root |-> FALSE, nodes |-> <<>>]

\* a path without its trailing separators
RECURSIVE StripSlash(_)
StripSlash(p) ==
    IF p # <<>> /\ p[Len(p)] = Slash THEN StripSlash(SubSeq(p, 1, Len(p) - 1)) ELSE p

\* the path below destPath the system calls see for destRoot / relPath (a
\* path handed to the system ends at its first NUL)
NodePath(relPath) == StripSlash(CStr(relPath))

\* the directories above p, below destPath
ParentDirs(p) ==
    {q \in {SubSeq(p, 1, k - 1) : k \in SlashPositions(p)} :
        \* the root directory and the parent of a directory are there already
        q # <<>> /\ Filename(q) # DotDot}

\* fs::path::parent_path(), relative to destPath
ParentPath(p) ==
    IF SlashPositions(p) = {} THEN <<>>
    ELSE SubSeq(p, 1, (CHOOSE k \in SlashPositions(p) :
                          \A m \in SlashPositions(p) : m <= k) - 1)

\* the nodes directly or indirectly below p
Below(nodes, p) ==
    {q \in DOMAIN nodes : Len(q) > Len(p) + 1 /\ SubSeq(q, 1, Len(p) + 1) = p \o <<Slash>>}

\* fs::create_directories on the paths dirs: throws when one of them exists
\* and is no directory, and creates the missing ones
CreateDirectories(nodes, dirs) ==
    IF \E q \in dirs : q \in DOMAIN nodes /\ nodes[q].kind # "dir"
    THEN [thrown |-> TRUE, nodes |-> nodes]
    ELSE [thrown |-> FALSE,
          nodes |-> [q \in dirs \ DOMAIN nodes |-> [kind |-> "dir", data |-> <<>>]] @@ nodes]

\* the path a write through the symlink at p reaches
LinkDest(p, target) ==
    IF ParentPath(p) = <<>> \/ (target # <<>> /\ target[1] = Slash) THEN target
    ELSE ParentPath(p) \o <<Slash>> \o target

\* typeCode == 2: fs::create_directories(fullPath)
MaterialiseDir(fsys, p) ==
    [thrown |-> CreateDirectories(fsys.nodes, ParentDirs(p) \cup ({p} \ {<<>>})).thrown,
     fsys |-> [fsys EXCEPT !.nodes =
                 CreateDirectories(fsys.nodes, ParentDirs(p) \cup ({p} \ {<<>>})).nodes]]

\* typeCode == 3, the parent directories made (nodes): fs::remove of what
\* is at the path, then create_symlink inside try / catch
MaterialiseLink(fsys, nodes, p, target) ==
    \* fs::remove(fullPath) on destPath itself
    IF p = <<>>
    THEN IF DOMAIN nodes # {} THEN [thrown |-> TRUE, fsys |-> fsys]
         ELSE [thrown |-> FALSE, fsys |-> [root |-> FALSE, nodes |-> nodes]]
    \* fs::remove(fullPath) on a directory that is not empty
    ELSE IF p \in DOMAIN nodes /\ nodes[p].kind = "dir" /\ Below(nodes, p) # {}
    THEN [thrown |-> TRUE, fsys |-> [fsys EXCEPT !.nodes = nodes]]
    \* create_symlink fails on an empty target
    ELSE IF target = <<>>
    THEN [thrown |-> FALSE,
          fsys |-> [fsys EXCEPT !.nodes = [q \in DOMAIN nodes \ {p} |-> nodes[q]]]]
    ELSE [thrown |-> FALSE,
          fsys |-> [fsys EXCEPT !.nodes =
                      (p :> [kind |-> "link", data |-> target])
                          @@ [q \in DOMAIN nodes \ {p} |-> nodes[q]]]]

\* typeCode == 1, the parent directories made (nodes): an ofstream on the
\* path and the write of the data
MaterialiseFile(fsys, nodes, p, data) ==
    \* the ofstream does not open on a directory
    IF p = <<>> \/ (p \in DOMAIN nodes /\ nodes[p].kind = "dir")
    THEN [thrown |-> FALSE, fsys |-> [fsys EXCEPT !.nodes = nodes]]
    \* an ofstream on a symlink writes what the link names
    ELSE IF p \in DOMAIN nodes /\ nodes[p].kind = "link"
    THEN [thrown |-> FALSE,
          fsys |-> [fsys EXCEPT !.nodes =
                      (LinkDest(p, nodes[p].data) :> [kind |-> "file", data |-> data])
                          @@ nodes]]
    ELSE [thrown |-> FALSE,
          fsys |-> [fsys EXCEPT !.nodes = (p :> [kind |-> "file", data |-> data]) @@ nodes]]

\* the parent directories of p made, then the file or link
MaterialiseIn(fsys, parents, typeCode, p, data) ==
    IF parents.thrown THEN [thrown |-> TRUE, fsys |-> fsys]
    ELSE IF typeCode = 3 THEN MaterialiseLink(fsys, parents.nodes, p, CStr(data))
    ELSE MaterialiseFile(fsys, parents.nodes, p, data)

\* The materialise step of unpack for one frame at the path p below destPath.
Materialise(fsys, typeCode, p, data) ==
    IF typeCode = 2 THEN MaterialiseDir(fsys, p)
    ELSE IF typeCode = 3 \/ typeCode = 1
    THEN MaterialiseIn(fsys, CreateDirectories(fsys.nodes, ParentDirs(p)), typeCode, p, data)
    ELSE [thrown |-> FALSE, fsys |-> fsys]

\* ---------------------------------------------------------------------
\* Inputs of the model
\* ---------------------------------------------------------------------

\* file contents: every byte sequence over DataBytes of at most MaxDataLen
MaxDataLen == 2
DataBytes == {7, 8}
Contents == UNION {[1..n -> DataBytes] : n \in 0..MaxDataLen}

File(rel, data) == [rel |-> rel, kind |-> "file", follows |-> "file", data |-> data,
                    target |-> <<>>, readable |-> TRUE, mtime |-> 9]
Dir(rel) == [rel |-> rel, kind |-> "dir", follows |-> "dir", data |-> <<>>,
             target |-> <<>>, readable |-> FALSE, mtime |-> 9]
Link(rel, target, follows, data) ==
    [rel |-> rel, kind |-> "link", follows |-> follows, data |-> data,
     target |-> target, readable |-> follows = "file", mtime |-> 9]

\* a source path naming one regular file d/a
Single(c) == [exists |-> TRUE, single |-> TRUE, entries |-> <<File(<<100, 47, 97>>, c)>>]
\* d/, d/b, a
TreeMixed == [exists |-> TRUE, single |-> FALSE,
              entries |-> <<Dir(<<100>>), File(<<100, 47, 98>>, <<7, 7, 7>>),
                            File(<<97>>, <<1, 2>>)>>]
\* a, l -> a, s -> x (dangling)
TreeLinks == [exists |-> TRUE, single |-> FALSE,
              entries |-> <<File(<<97>>, <<9>>),
                            Link(<<108>>, <<97>>, "file", <<9>>),
                            Link(<<115>>, <<120>>, "none", <<>>)>>]
\* p (a fifo), u (a file that cannot be opened), e/ (an empty directory)
TreeOdd == [exists |-> TRUE, single |-> FALSE,
            entries |-> <<[File(<<112>>, <<>>) EXCEPT !.kind = "other", !.follows = "other",
                                                      !.readable = FALSE],
                          [File(<<117>>, <<5>>) EXCEPT !.readable = FALSE],
                          Dir(<<101>>)>>]
\* a source path that does not exist
Missing == [exists |-> FALSE, single |-> FALSE, entries |-> <<>>]

Trees == {Single(c) : c \in Contents} \cup {TreeMixed, TreeLinks, TreeOdd, Missing}

\* the (source, filter) pairs pack is called with
Inputs == {<<t, NoFilter>> : t \in Trees}
              \cup {<<TreeMixed, [NoFilter EXCEPT !.minSize = 3]>>}

\* passwords: none, one ASCII byte, two bytes the second of which is >= 128
Passwords == {<<>>, <<97>>, <<97, 195>>}
EncModes == {"NONE", "XOR", "RC4"}
CompModes == {"NONE", "RLE"}

\* the bytes a read outside an array / of an uninitialised buffer may yield
Garbage == {0, 255}
\* the bit patterns a tampered byte is XORed with
TamperDeltas == {1, 128}
\* how many bytes a truncation removes at most
MaxCut == 2

\* ---------------------------------------------------------------------
\* State
\* ---------------------------------------------------------------------

VARIABLES
    source,     \* the tree at srcPath
    filter,     \* the FilterOptions of the pack call
    password,   \* the password of the pack call
    encMode,    \* the EncryptionMode of the pack call
    compMode,   \* the CompressionMode of the pack call
    pc,         \* where the run is: start, scanned, packing, packed,
                \* unpacking, done, failed (an exception left unpack);
                \* probe, probed for a primitive applied on its own
    files,      \* the records scanDirectory returned
    next,       \* the index of the record the loop of packFiles is at
    archive,    \* the bytes of the container file
    wrc4,       \* the RC4 object of packFiles
    wlog,       \* per frame written: its fields before encryption, the RC4
                \* object after each field, the offset of the frame, the
                \* bytes loaded for it
    damage,     \* what was done to the container after pack: [kind, at]
    upwd,       \* the password of the unpack call
    uencMode,   \* the cipher unpack derived from the magic
    isRLE,      \* the compression flag unpack read
    inPos,      \* the read position of the ifstream of unpack
    inGood,     \* whether that stream is good()
    rrc4,       \* the RC4 object of unpack
    rlog,       \* per frame decoded: the fields decoded and the RC4 object
                \* after each
    fsys,       \* the destination
    warnings,   \* the paths of the "CRC Mismatch" messages, in order
    metaLog,    \* the chmod / chown / utime calls, in order
    err,        \* the message of the exception that ended the call, or ""
    probe       \* the argument and result of a primitive applied on its own

vars == <<source, filter, password, encMode, compMode, pc, files, next, archive,
          wrc4, wlog, damage, upwd, uencMode, isRLE, inPos, inGood, rrc4, rlog,
          fsys, warnings, metaLog, err, probe>>

packVars == <<files, next, archive, wrc4, wlog>>
unpackVars == <<upwd, uencMode, isRLE, inPos, inGood, rrc4, rlog, fsys, warnings,
                metaLog, err>>
inputVars == <<source, filter, password, encMode, compMode>>

NoDamage == [kind |-> "none", at |-> 0]

Idle ==
    /\ files = <<>> /\ next = 1 /\ archive = <<>> /\ wrc4 = RC4new /\ wlog = <<>>
    /\ damage = NoDamage
    /\ upwd = <<>> /\ uencMode = "NONE" /\ isRLE = FALSE /\ inPos = 0 /\ inGood = TRUE
    /\ rrc4 = RC4new /\ rlog = <<>> /\ fsys = EmptyFS /\ warnings = <<>>
    /\ metaLog = <<>> /\ err = ""

Init ==
    /\ \E in \in Inputs : source = in[1] /\ filter = in[2]
    /\ password \in Passwords
    /\ encMode \in EncModes
    /\ compMode \in CompModes
    /\ pc = "start"
    /\ probe = [op |-> "none"]
    /\ Idle

\* ---------------------------------------------------------------------
\* pack
\* ---------------------------------------------------------------------

\* BackupEngine::pack, first statement: auto files = scanDirectory(srcPath, filter)
Scan ==
    /\ pc = "start"
    /\ files' = scanDirectory(source, filter)
    /\ pc' = "scanned"
    /\ UNCHANGED <<inputVars, next, archive, wrc4, wlog, damage, unpackVars, probe>>

\* packFiles up to its loop: the magic, the compression flag, the RC4 object
PackOpen ==
    /\ pc = "scanned"
    /\ archive' = PackMagic(encMode) \o <<PackCompFlag(compMode)>>
    /\ \E g \in IF PackUsesRC4(encMode, password) THEN Garbage ELSE {0} :
           wrc4' = IF PackUsesRC4(encMode, password)
                   THEN RC4init(RC4new, password, g) ELSE RC4new
    /\ next' = 1
    /\ pc' = "packing"
    /\ UNCHANGED <<inputVars, files, wlog, damage, unpackVars, probe>>

\* what one pass of the loop of packFiles appends to the log: the fields of
\* the frame, the writer's RC4 object after each, the frame's offset
FrameLog(rc4, mode, pwd, rec, loaded, fields, at) ==
    [fields |-> fields,
     states |-> IF PackUsesRC4(mode, pwd) THEN FieldStates(rc4, fields, 1)
                ELSE <<<<>>, <<>>, <<>>, <<>>, <<>>, <<>>, <<>>>>,
     at |-> at, loaded |-> loaded, rec |-> rec]

\* PackFrame with the CRC taken before the compression: the crc32 field is
\* that of the bytes as loaded
PackFrameCrcFirst(rc4, mode, comp, pwd, rec, loaded, at) ==
    [enc |-> PackEncrypt(rc4, mode, pwd,
                 [PackFields(rec, PackCompress(comp, loaded)) EXCEPT ![5] = PackCRC(loaded)]),
     log |-> FrameLog(rc4, mode, pwd, rec, loaded,
                 [PackFields(rec, PackCompress(comp, loaded)) EXCEPT ![5] = PackCRC(loaded)],
                 at)]

\* the frame of one record: the bytes loaded, the fields, their encryption
PackFrame(rc4, mode, comp, pwd, rec, loaded, at) ==
    [enc |-> PackEncrypt(rc4, mode, pwd, PackFields(rec, PackCompress(comp, loaded))),
     log |-> FrameLog(rc4, mode, pwd, rec, loaded,
                      PackFields(rec, PackCompress(comp, loaded)), at)]

\* one pass of the loop of packFiles
PackRecord ==
    /\ pc = "packing"
    /\ next <= Len(files)
    /\ IF files[next].type = "OTHER"
       THEN UNCHANGED <<archive, wrc4, wlog>>
       ELSE \E fr \in {PackFrame(wrc4, encMode, compMode, password, files[next],
                                 LoadData(source, files[next]), Len(archive))} :
                /\ archive' = archive \o fr.enc.out
                /\ wrc4' = fr.enc.rc4
                /\ wlog' = Append(wlog, fr.log)
    /\ next' = next + 1
    /\ UNCHANGED <<inputVars, pc, files, damage, unpackVars, probe>>

\* the loop of packFiles is over: out.close()
PackClose ==
    /\ pc = "packing"
    /\ next > Len(files)
    /\ pc' = "packed"
    /\ UNCHANGED <<inputVars, packVars, damage, unpackVars, probe>>

\* ---------------------------------------------------------------------
\* What may happen to the container between pack and unpack
\* ---------------------------------------------------------------------

\* the offset of the first payload byte of frame f, and the payload's bytes
PayloadAt(f) == wlog[f].at + Len(MetaBuffer(wlog[f].fields))
PayloadPositions ==
    UNION {{PayloadAt(f) + k : k \in 1..Len(wlog[f].fields[7])} : f \in 1..Len(wlog)}

\* one byte inside a payload is changed
TamperPayload ==
    /\ pc = "packed" /\ damage.kind = "none"
    /\ \E at \in PayloadPositions, d \in TamperDeltas :
           /\ archive' = [archive EXCEPT ![at] = XorByte(archive[at], d)]
           /\ damage' = [kind |-> "payload", at |-> at]
    /\ UNCHANGED <<inputVars, pc, files, next, wrc4, wlog, unpackVars, probe>>

\* one byte of the magic is changed
TamperMagic ==
    /\ pc = "packed" /\ damage.kind = "none"
    /\ \E at \in {1, MagicLen}, d \in TamperDeltas :
           /\ archive' = [archive EXCEPT ![at] = XorByte(archive[at], d)]
           /\ damage' = [kind |-> "magic", at |-> at]
    /\ UNCHANGED <<inputVars, pc, files, next, wrc4, wlog, unpackVars, probe>>

\* the container loses its tail: n bytes are left
Truncate ==
    /\ pc = "packed" /\ damage.kind = "none"
    /\ \E k \in 1..MaxCut, from \in {Len(archive), MagicLen + 1} :
           /\ from - k >= 0
           /\ archive' = SubSeq(archive, 1, from - k)
           /\ damage' = [kind |-> "cut", at |-> from - k]
    /\ UNCHANGED <<inputVars, pc, files, next, wrc4, wlog, unpackVars, probe>>

\* ---------------------------------------------------------------------
\* unpack
\* ---------------------------------------------------------------------

\* the header as unpack reads it: in.read(magic, 8), then in.read(&compFlag, 1)
ReadHeader(arch) ==
    [magic |-> StreamRead(arch, [pos |-> 0, good |-> TRUE], MagicLen, 0),
     flag  |-> StreamRead(arch, StreamRead(arch, [pos |-> 0, good |-> TRUE], MagicLen, 0),
                          1, 0)]

\* unpack up to its loop: destRoot is created, then the magic and the
\* compression flag are read and the RC4 object initialised
UnpackOpen ==
    /\ pc = "packed"
    /\ \E pw \in {password, <<>>}, h \in {ReadHeader(archive)} :
       \E mode \in {MagicMode(CStr(h.magic.buf))} :
           /\ upwd' = pw
           /\ fsys' = [fsys EXCEPT !.root = TRUE]
           /\ IF mode = "UNKNOWN"
              THEN /\ pc' = "failed"
                   /\ err' = "Unknown file format"
                   /\ inPos' = h.magic.pos /\ inGood' = h.magic.good
                   /\ UNCHANGED <<uencMode, isRLE, rrc4>>
              ELSE /\ pc' = "unpacking"
                   /\ uencMode' = mode
                   /\ isRLE' = (h.flag.buf[1] = 1)
                   /\ inPos' = h.flag.pos /\ inGood' = h.flag.good
                   /\ \E g \in IF mode = "RC4" THEN Garbage ELSE {0} :
                          rrc4' = IF mode = "RC4" THEN RC4init(RC4new, pw, g) ELSE RC4new
                   /\ UNCHANGED err
    /\ UNCHANGED <<inputVars, packVars, damage, rlog, warnings, metaLog, probe>>

\* the chmod / chown / utime calls for one frame
MetaCall(relPath, meta) ==
    [path |-> relPath, mode |-> SubSeq(meta, 1, 4), uid |-> SubSeq(meta, 5, 8),
     gid |-> SubSeq(meta, 9, 12), mtime |-> SubSeq(meta, 13, 20)]

\* what the loop body does with a decoded frame d
FrameEffect(fs, d, rle) ==
    IF d.thrown THEN [thrown |-> FALSE, fsys |-> fs]
    ELSE Materialise(fs, FrameTypeCode(d), NodePath(FrameRelPath(d)), FrameData(d, rle))

\* one pass of the loop of unpack
UnpackFrame ==
    /\ pc = "unpacking"
    /\ PeekNotEOF(archive, [pos |-> inPos, good |-> inGood])
    /\ \E u \in Garbage :
       \E d \in {DecodeFrame(archive, uencMode, upwd, FrameStart(inPos, inGood, rrc4), u)} :
       \E m \in {FrameEffect(fsys, d, isRLE)} :
           /\ inPos' = d.pos /\ inGood' = d.good /\ rrc4' = d.rc4
           /\ rlog' = Append(rlog, [fields |-> d.fields, states |-> d.states])
           /\ IF d.thrown
              THEN /\ pc' = "failed" /\ err' = "bad_alloc"
                   /\ UNCHANGED <<fsys, warnings, metaLog>>
              ELSE /\ warnings' = IF FrameMismatch(d) THEN Append(warnings, FrameRelPath(d))
                                  ELSE warnings
                   /\ fsys' = m.fsys
                   /\ IF m.thrown
                      THEN /\ pc' = "failed" /\ err' = "filesystem_error"
                           /\ UNCHANGED metaLog
                      ELSE /\ metaLog' = Append(metaLog, MetaCall(FrameRelPath(d), FrameMeta(d)))
                           /\ UNCHANGED <<pc, err>>
    /\ UNCHANGED <<inputVars, packVars, damage, upwd, uencMode, isRLE, probe>>

\* in.peek() == EOF: the loop ends and unpack returns
UnpackDone ==
    /\ pc = "unpacking"
    /\ ~PeekNotEOF(archive, [pos |-> inPos, good |-> inGood])
    /\ pc' = "done"
    /\ UNCHANGED <<inputVars, packVars, damage, unpackVars, probe>>

Next ==
    \/ Scan
    \/ PackOpen
    \/ PackRecord
    \/ PackClose
    \/ TamperPayload
    \/ TamperMagic
    \/ Truncate
    \/ UnpackOpen
    \/ UnpackFrame
    \/ UnpackDone

Spec == Init /\ [][Next]_vars

\* ---------------------------------------------------------------------
\* checkFilter on its own: records and options from bounded sets
\* ---------------------------------------------------------------------

ProbeRecords ==
    [relPath : {<<100, 47, 97>>, <<98>>}, absPath : {<<>>},
     type : {"REGULAR", "DIRECTORY", "SYMLINK"}, size : {0, 50, 150},
     linkTarget : {<<>>}, mode : {DefaultMode}, uid : {0, 1000}, gid : {0},
     mtime : {5, 9}]

ProbeOptions ==
    [nameContains : {<<>>, <<97>>}, pathContains : {<<>>, <<100>>},
     type : {-1, 0, 1, 2}, minSize : {0, 100}, maxSize : {0, 200},
     startTime : {0, 7}, targetUid : {-1, 1000}]

InitFilter ==
    /\ source = Missing /\ filter = NoFilter /\ password = <<>>
    /\ encMode = "NONE" /\ compMode = "NONE"
    /\ pc = "probe"
    /\ probe = [op |-> "none"]
    /\ Idle

\* one call of checkFilter(record, opts)
FilterProbe ==
    /\ pc = "probe"
    /\ \E record \in ProbeRecords, opts \in ProbeOptions :
           probe' = [op |-> "checkFilter", record |-> record, opts |-> opts,
                     result |-> checkFilter(record, opts)]
    /\ pc' = "probed"
    /\ UNCHANGED <<inputVars, packVars, damage, unpackVars>>

NextFilter == FilterProbe

SpecFilter == InitFilter /\ [][NextFilter]_vars

\* ---------------------------------------------------------------------
\* Properties
\* ---------------------------------------------------------------------

\* the node unpack should make for a source entry
SourceNode(e) ==
    [kind |-> e.kind, data |-> IF e.kind = "link" THEN e.target
                               ELSE IF e.kind = "file" THEN e.data ELSE <<>>]

\* the tree at the source, in the form of the destination's nodes
SourceNodes(src) ==
    IF ~src.exists THEN <<>>
    ELSE IF src.single
    THEN (Filename(src.entries[1].rel) :> SourceNode(src.entries[1]))
    ELSE [p \in {src.entries[k].rel : k \in 1..Len(src.entries)} |->
            SourceNode(src.entries[CHOOSE k \in 1..Len(src.entries) :
                                       src.entries[k].rel = p])]

SameNodes(a, b) == DOMAIN a = DOMAIN b /\ \A p \in DOMAIN a : a[p] = b[p]

\* a tree of readable regular files, directories and symlinks
PlainTree(src) ==
    \A k \in 1..Len(src.entries) :
        /\ src.entries[k].kind \in {"file", "dir", "link"}
        /\ src.entries[k].kind = "file" => src.entries[k].readable

\* unpack has returned or thrown
UnpackEnded == pc \in {"done", "failed"}
\* UnpackOpen has run
UnpackBegun == pc \in {"unpacking", "done", "failed"}
\* packFiles has written the header
HeaderWritten == pc \in {"packing", "packed"} /\ damage = NoDamage

\* the first MagicLen bytes of the container (fewer when it is shorter)
HeaderMagic ==
    IF Len(archive) < MagicLen THEN archive ELSE SubSeq(archive, 1, MagicLen)
KnownMagic == HeaderMagic \in {MagicNone, MagicXor, MagicRc4}

\* the bytes of frame f in the container, and those of its payload
FrameBytes(f) ==
    SubSeq(archive, wlog[f].at + 1,
           wlog[f].at + Len(MetaBuffer(wlog[f].fields)) + Len(wlog[f].fields[7]))
PayloadBytes(f) ==
    SubSeq(archive, PayloadAt(f) + 1, PayloadAt(f) + Len(wlog[f].fields[7]))

\* C1: unpack(pack(T)) with the same password, whatever the cipher, the
\* compression and the password, ends normally and leaves at the destination
\* exactly T: its files' bytes, its directories, its symlinks' targets.
C1_RoundTrip ==
    (UnpackEnded /\ damage = NoDamage /\ upwd = password /\ filter = NoFilter
        /\ PlainTree(source))
    => (pc = "done" /\ SameNodes(fsys.nodes, SourceNodes(source)))

\* C2: with cipher XOR and a non-empty password, pack writes every field
\* of a frame XORed on its own (the password cycle restarting at each
\* field), and every field unpack decodes is the field pack encoded.
C2_XorPerField ==
    (encMode = "XOR" /\ password # <<>> /\ damage = NoDamage)
    => /\ \A f \in 1..Len(wlog) :
            FrameBytes(f) =
                xorEncrypt(wlog[f].fields[1], password)
                    \o xorEncrypt(wlog[f].fields[2], password)
                    \o xorEncrypt(wlog[f].fields[3], password)
                    \o xorEncrypt(wlog[f].fields[4], password)
                    \o xorEncrypt(wlog[f].fields[5], password)
                    \o xorEncrypt(wlog[f].fields[6], password)
                    \o xorEncrypt(wlog[f].fields[7], password)
       /\ upwd = password
            => \A k \in 1..Len(rlog) :
                   k <= Len(wlog) /\ rlog[k].fields = wlog[k].fields

\* C3: with cipher RC4 and a non-empty password, after every field of every
\* frame the reader's RC4 object (S, i, j) equals the writer's after the same
\* field, and every field unpack decrypts is the writer's plaintext.
C3_Rc4StatesAgree ==
    (encMode = "RC4" /\ password # <<>> /\ upwd = password /\ damage = NoDamage)
    => \A k \in 1..Len(rlog) :
           /\ k <= Len(wlog)
           /\ rlog[k].states = wlog[k].states
           /\ rlog[k].fields = wlog[k].fields

\* C4: pack with an empty password writes the magic MINIBK10 whatever
\* cipher was requested; MINIBK_X or MINIBK_R is written only with a
\* non-empty password.
C4_EmptyPasswordMagic ==
    HeaderWritten
    => /\ password = <<>> => HeaderMagic = MagicNone
       /\ HeaderMagic \in {MagicXor, MagicRc4} => password # <<>>

\* C5: unpack of a container whose magic is MINIBK_X or MINIBK_R with an
\* empty password fails with the error "Password required" before any frame
\* is decoded and before any entry is created.
C5_PasswordRequired ==
    (UnpackBegun /\ HeaderMagic \in {MagicXor, MagicRc4} /\ upwd = <<>>)
    => /\ pc = "failed" /\ err = "Password required"
       /\ rlog = <<>>
       /\ DOMAIN fsys.nodes = {}

\* C6: unpack of a container whose first 8 bytes are none of the three
\* magics (a container shorter than 8 bytes included) fails with "Unknown
\* file format" having decoded no frame and created no file and no directory
\* below the destination root; the destination root itself exists by then.
C6_UnknownFormat ==
    (UnpackBegun /\ ~KnownMagic)
    => /\ pc = "failed" /\ err = "Unknown file format"
       /\ rlog = <<>>
       /\ DOMAIN fsys.nodes = {}
       /\ fsys.root

\* C6 as stated: on an unknown magic unpack fails with "Unknown file
\* format" and creates nothing, the destination root included.
C6_NothingCreated ==
    (UnpackBegun /\ ~KnownMagic)
    => /\ pc = "failed" /\ err = "Unknown file format"
       /\ rlog = <<>>
       /\ DOMAIN fsys.nodes = {}
       /\ ~fsys.root

\* a container whose magic was changed has been refused
C6_Witness ==
    pc = "failed" /\ damage.kind = "magic" /\ ~KnownMagic /\ Len(wlog) > 0

\* the frame whose payload holds the changed byte
TamperedFrame ==
    CHOOSE f \in 1..Len(wlog) :
        PayloadAt(f) < damage.at /\ damage.at <= PayloadAt(f) + Len(wlog[f].fields[7])

\* the entry of frame f is at the destination as it is at the source
Restored(f) ==
    LET p == wlog[f].rec.relPath
    IN  /\ p \in DOMAIN fsys.nodes
        /\ p \in DOMAIN SourceNodes(source)
        /\ fsys.nodes[p] = SourceNodes(source)[p]

\* C7: with one byte of one frame's payload changed, unpack ends normally
\* with exactly one integrity warning, the one for that frame, and every
\* other entry is restored identical to its source.
C7_TamperOneWarning ==
    (UnpackEnded /\ damage.kind = "payload" /\ upwd = password /\ PlainTree(source))
    => /\ pc = "done"
       /\ warnings = <<wlog[TamperedFrame].rec.relPath>>
       /\ \A f \in 1..Len(wlog) : f # TamperedFrame => Restored(f)

\* the container was cut inside its last frame
CutInFrame ==
    /\ damage.kind = "cut" /\ damage.at > MagicLen + 1
    /\ Len(wlog) > 0 /\ damage.at > wlog[Len(wlog)].at

\* C8: when the container ends inside a frame unpack ends with a fatal
\* error and nothing of the cut frame is materialised.
C8_TruncationFatal ==
    (UnpackEnded /\ CutInFrame)
    => /\ pc = "failed"
       /\ NodePath(wlog[Len(wlog)].rec.relPath) \notin DOMAIN fsys.nodes

\* the encryption packFiles applies to the payload of frame f
PayloadCipher(f, z) ==
    IF z = <<>> THEN z
    ELSE IF PackUsesRC4(encMode, password) THEN RC4cipher(wlog[f].states[6], z).out
    ELSE IF PackUsesXOR(encMode, password) THEN xorEncrypt(z, password)
    ELSE z

\* C9: in every frame written, payloadLen is the length of the compressed
\* payload and crc32 is CRC32 of the compressed, unencrypted payload, and the
\* payload bytes in the container are the encryption of the compressed bytes;
\* a frame unpack decrypts to the fields written passes the CRC check (made on
\* the still compressed bytes) and its file gets the decompressed bytes.
C9_CompressThenEncrypt ==
    /\ \A f \in 1..Len(wlog) :
         /\ wlog[f].fields[4] = LEBytes(Len(PackCompress(compMode, wlog[f].loaded)), 8)
         /\ wlog[f].fields[5] = CRC32calculate(PackCompress(compMode, wlog[f].loaded))
         /\ damage = NoDamage
              => PayloadBytes(f) = PayloadCipher(f, PackCompress(compMode, wlog[f].loaded))
    /\ \A k \in 1..Len(rlog) :
         (k <= Len(wlog) /\ rlog[k].fields = wlog[k].fields)
         => /\ \A w \in 1..Len(warnings) : warnings[w] # rlog[k].fields[3]
            /\ (k <= Len(metaLog) /\ wlog[k].rec.type = "REGULAR"
                  /\ wlog[k].rec.relPath \in DOMAIN fsys.nodes)
                 => fsys.nodes[wlog[k].rec.relPath] =
                        [kind |-> "file", data |-> wlog[k].loaded]

\* a compressed, RC4-encrypted container has been unpacked, a frame of it
\* holding a payload that compression shortened
C9_Witness ==
    /\ pc = "done" /\ compMode = "RLE" /\ encMode = "RC4" /\ password = <<97>>
    /\ upwd = password /\ damage = NoDamage
    /\ \E k \in 1..Len(rlog) :
         /\ k <= Len(wlog) /\ rlog[k].fields = wlog[k].fields
         /\ Len(wlog[k].fields[7]) < Len(wlog[k].loaded)
         /\ fsys.nodes[wlog[k].rec.relPath].data = wlog[k].loaded

\* what C10 says checkFilter decides for a record that is no directory
AllPredicates(record, opts) ==
    /\ opts.nameContains # <<>> => Contains(Filename(record.relPath), opts.nameContains)
    /\ opts.pathContains # <<>> => Contains(record.relPath, opts.pathContains)
    /\ opts.type = 0 => record.type = "REGULAR"
    /\ opts.type = 1 => record.type = "DIRECTORY"
    /\ opts.type = 2 => record.type = "SYMLINK"
    /\ opts.minSize > 0 => record.size >= opts.minSize
    /\ opts.maxSize > 0 => record.size <= opts.maxSize
    /\ opts.startTime > 0 => record.mtime >= opts.startTime
    /\ opts.targetUid # -1 => record.uid = opts.targetUid

\* C10: checkFilter accepts a record that is no directory if and only if
\* every configured predicate holds: name, path, type, size within
\* [minSize, maxSize], mtime >= startTime, uid = targetUid; an option left
\* unset rejects nothing.
C10_FilterConjunction ==
    (probe.op = "checkFilter" /\ probe.record.type # "DIRECTORY")
    => (probe.result <=> AllPredicates(probe.record, probe.opts))

\* the name, path and type tests of checkFilter
NamePathType(record, opts) ==
    /\ opts.nameContains # <<>> => Contains(Filename(record.relPath), opts.nameContains)
    /\ opts.pathContains # <<>> => Contains(record.relPath, opts.pathContains)
    /\ opts.type = 0 => record.type = "REGULAR"
    /\ opts.type = 1 => record.type = "DIRECTORY"
    /\ opts.type = 2 => record.type = "SYMLINK"

\* C11: checkFilter accepts a Directory record exactly when it passes the
\* configured name, path and type tests, whatever minSize, maxSize and
\* startTime are and whatever the record's size and mtime.
C11_DirectoryExempt ==
    (probe.op = "checkFilter" /\ probe.record.type = "DIRECTORY")
    => (probe.result <=> NamePathType(probe.record, probe.opts))

\* a directory below minSize and older than startTime has been accepted
C11_Witness ==
    /\ probe.op = "checkFilter" /\ probe.record.type = "DIRECTORY"
    /\ probe.opts.minSize > probe.record.size
    /\ probe.opts.startTime > probe.record.mtime
    /\ probe.opts.nameContains # <<>>
    /\ probe.result

\* ---------------------------------------------------------------------
\* rleCompress and rleDecompress on their own
\* ---------------------------------------------------------------------

\* the longest input enumerated byte by byte
MaxRleLen == 5
RleBytes == {0, 2, 200}
\* n copies of v
Run(n, v) == Buffer([k \in 1..n |-> v], n)
\* every sequence over RleBytes of at most MaxRleLen bytes, and runs around
\* and beyond what one pair can hold, alone and followed by one more byte
RleInputs ==
    UNION {[1..n -> RleBytes] : n \in 0..MaxRleLen}
        \cup {Run(n, 2) : n \in {254, 255, 256, 300, 510, 511}}
        \cup {Run(n, 200) \o <<b>> : n \in {255, 256, 300}, b \in {0, 200}}

\* what rleDecompress is given: every short sequence (pairs with count 0,
\* odd lengths) and pairs with the largest counts
RleEncoded ==
    UNION {[1..n -> RleBytes] : n \in 0..MaxRleLen}
        \cup {<<255, 2, 45, 2>>, <<255, 0, 255, 0, 1>>, <<128, 7, 0, 9, 127, 7>>}

InitRle ==
    /\ source = Missing /\ filter = NoFilter /\ password = <<>>
    /\ encMode = "NONE" /\ compMode = "RLE"
    /\ pc = "probe"
    /\ probe = [op |-> "none"]
    /\ Idle

\* rleCompress(input, output), then rleDecompress on that output
RleCompressProbe ==
    /\ pc = "probe"
    /\ \E x \in RleInputs :
       \E z \in {rleCompress(x)} :
           probe' = [op |-> "rleCompress", input |-> x, output |-> z,
                     restored |-> rleDecompress(z)]
    /\ pc' = "probed"
    /\ UNCHANGED <<inputVars, packVars, damage, unpackVars>>

\* rleDecompress(input, output) on any bytes
RleDecompressProbe ==
    /\ pc = "probe"
    /\ \E y \in RleEncoded :
           probe' = [op |-> "rleDecompress", input |-> y, output |-> rleDecompress(y)]
    /\ pc' = "probed"
    /\ UNCHANGED <<inputVars, packVars, damage, unpackVars>>

NextRle ==
    \/ RleCompressProbe
    \/ RleDecompressProbe

SpecRle == InitRle /\ [][NextRle]_vars

\* C12: rleDecompress(rleCompress(x)) = x for every byte sequence x, the
\* empty one, a single byte and runs of more than 255 equal bytes included.
C12_RleRoundTrip ==
    probe.op = "rleCompress" => probe.restored = probe.input

\* a run of more than 255 bytes was split over several pairs and restored
C12_Witness ==
    /\ probe.op = "rleCompress"
    /\ Len(probe.input) > 255 /\ Len(probe.output) >= 4
    /\ probe.restored = probe.input

\* ---------------------------------------------------------------------
\* class RC4 on its own: a sequence of fields through one object
\* ---------------------------------------------------------------------

\* rc4.cipher on each of fields in turn, the object running on from one
\* field to the next: the transformed fields
RECURSIVE CipherFields(_, _, _)
CipherFields(rc4, fields, k) ==
    IF k > Len(fields) THEN <<>>
    ELSE <<RC4cipher(rc4, fields[k]).out>>
             \o CipherFields(RC4cipher(rc4, fields[k]).rc4, fields, k + 1)

\* rc4.init(key) before each field, then rc4.cipher on it
ReinitFields(key, fields, g) ==
    Buffer([k \in 1..Len(fields) |-> RC4cipher(RC4init(RC4new, key, g), fields[k]).out],
           Len(fields))

\* "a", "bc", "Key", and one byte >= 128
Rc4Passwords == {<<97>>, <<98, 99>>, <<75, 101, 121>>, <<195>>}
Rc4Fields == {<<7>>, <<7, 8>>, <<0, 0, 0>>}
\* two or three non-empty fields
Rc4FieldSeqs == [1..2 -> Rc4Fields] \cup [1..3 -> Rc4Fields]
\* the bytes RC4::init may read below S with this key
InitGarbage(key) == IF \E k \in 1..Len(key) : key[k] >= 128 THEN Garbage ELSE {0}

InitRc4 ==
    /\ source = Missing /\ filter = NoFilter /\ password = <<>>
    /\ encMode = "RC4" /\ compMode = "NONE"
    /\ pc = "probe"
    /\ probe = [op |-> "none"]
    /\ Idle

\* fields encrypted by one RC4 object, then decrypted by one fresh object,
\* and decrypted by an object initialised anew before each field
Rc4Probe ==
    /\ pc = "probe"
    /\ \E key \in Rc4Passwords, fields \in Rc4FieldSeqs :
       \E gw \in InitGarbage(key), gr \in InitGarbage(key) :
       \E enc \in {CipherFields(RC4init(RC4new, key, gw), fields, 1)} :
           probe' = [op |-> "rc4", key |-> key, fields |-> fields, encrypted |-> enc,
                     continuous |-> CipherFields(RC4init(RC4new, key, gr), enc, 1),
                     reinit |-> ReinitFields(key, enc, gr)]
    /\ pc' = "probed"
    /\ UNCHANGED <<inputVars, packVars, damage, unpackVars>>

NextRc4 == Rc4Probe

SpecRc4 == InitRc4 /\ [][NextRc4]_vars

\* C13: two or more non-empty fields encrypted by one running RC4 object
\* are all reproduced by decrypting them in order with one fresh object, and
\* are not reproduced by an object initialised anew before each field.
C13_Rc4Continuity ==
    probe.op = "rc4"
    => /\ probe.continuous = probe.fields
       /\ probe.reinit # probe.fields

\* the source entry a record was scanned from
EntryOf(rec) ==
    source.entries[CHOOSE k \in 1..Len(source.entries) :
                       source.entries[k].rel = rec.absPath]

\* a Regular record whose file does not open
Unreadable(rec) == rec.type = "REGULAR" /\ ~EntryOf(rec).readable

\* the records packFiles writes a frame for
Framed(recs) == SelectSeq(recs, LAMBDA r : r.type # "OTHER")

\* C14: when a Regular record's file cannot be opened, pack still ends
\* normally having written a frame for every record, the one of the
\* unreadable file with payloadLen 0 and no payload, and unpack of that
\* container decodes every frame as it was written.
C14_UnreadableFile ==
    (\E k \in 1..Len(files) : Unreadable(files[k]))
    => /\ pc = "packed"
            => /\ Len(wlog) = Len(Framed(files))
               /\ \A f \in 1..Len(wlog) :
                    /\ wlog[f].rec = Framed(files)[f]
                    /\ Unreadable(wlog[f].rec)
                         => /\ wlog[f].fields[4] = LEBytes(0, 8)
                            /\ wlog[f].fields[7] = <<>>
       /\ (UnpackEnded /\ damage = NoDamage /\ upwd = password)
            => /\ pc = "done"
               /\ Len(rlog) = Len(wlog)
               /\ \A k \in 1..Len(rlog) : rlog[k].fields = wlog[k].fields

\* C15: on a source path that does not exist scanDirectory returns no
\* record, pack ends normally with a container of the 9 header bytes, and
\* unpack of it ends normally having decoded no frame and created no entry.
C15_MissingSource ==
    ~source.exists
    => /\ pc # "start" => files = <<>>
       /\ (pc = "packed" /\ damage = NoDamage)
            => archive = PackMagic(encMode) \o <<PackCompFlag(compMode)>>
       /\ (UnpackBegun /\ damage = NoDamage)
            => /\ pc # "failed"
               /\ rlog = <<>> /\ warnings = <<>> /\ metaLog = <<>>
               /\ DOMAIN fsys.nodes = {}

\* the header-only container of a missing source has been unpacked
C15_Witness ==
    /\ ~source.exists /\ pc = "done" /\ damage = NoDamage
    /\ Len(archive) = MagicLen + 1 /\ inPos = MagicLen + 1
    /\ encMode = "RC4" /\ upwd # <<>>

\* ---------------------------------------------------------------------
\* Two calls at once.  probe.calls[c] holds everything call c owns: its
\* arguments (job), its container file, its RC4 object, its stream, its
\* destination.
\* ---------------------------------------------------------------------

\* packFiles from record k on, run to its end on its own: the container
RECURSIVE PackFrom(_, _, _, _, _, _, _, _)
PackFrom(rc4, mode, comp, pwd, tree, recs, k, arch) ==
    IF k > Len(recs) THEN arch
    ELSE CHOOSE r \in
           { PackFrom(fr.enc.rc4, mode, comp, pwd, tree, recs, k + 1, arch \o fr.enc.out) :
               fr \in {PackFrame(rc4, mode, comp, pwd, recs[k],
                                 LoadData(tree, recs[k]), Len(arch))} } : TRUE

\* pack(tree) run on its own
PackAlone(tree, mode, comp, pwd) ==
    PackFrom(IF PackUsesRC4(mode, pwd) THEN RC4init(RC4new, pwd, 0) ELSE RC4new,
             mode, comp, pwd, tree, Framed(scanDirectory(tree, NoFilter)), 1,
             PackMagic(mode) \o <<PackCompFlag(comp)>>)

\* the loop of unpack run to its end on its own: the destination and whether
\* an exception ended the call
RECURSIVE UnpackFrom(_, _, _, _, _, _)
UnpackFrom(arch, mode, pwd, rle, d, fs) ==
    IF ~PeekNotEOF(arch, d) THEN [fsys |-> fs, failed |-> FALSE]
    ELSE CHOOSE r \in
           { IF n.thrown THEN [fsys |-> fs, failed |-> TRUE]
             ELSE IF FrameEffect(fs, n, rle).thrown
                  THEN [fsys |-> FrameEffect(fs, n, rle).fsys, failed |-> TRUE]
             ELSE UnpackFrom(arch, mode, pwd, rle, n, FrameEffect(fs, n, rle).fsys) :
               n \in {DecodeFrame(arch, mode, pwd, FrameStart(d.pos, d.good, d.rc4), 0)} }
           : TRUE

\* unpack(arch) of a container with a known magic, run on its own
UnpackAlone(arch, pwd) ==
    UnpackFrom(arch, MagicMode(CStr(ReadHeader(arch).magic.buf)), pwd,
               ReadHeader(arch).flag.buf[1] = 1,
               FrameStart(ReadHeader(arch).flag.pos, ReadHeader(arch).flag.good,
                          IF MagicMode(CStr(ReadHeader(arch).magic.buf)) = "RC4"
                          THEN RC4init(RC4new, pwd, 0) ELSE RC4new),
               [root |-> TRUE, nodes |-> <<>>])

\* the arguments of a call: pack of a tree, or unpack of a container pack
\* wrote before
ParJobs ==
    { [kind |-> k, tree |-> j[1], mode |-> j[2], comp |-> j[3], pwd |-> j[4]] :
        k \in {"pack", "unpack"},
        j \in { <<TreeMixed, "RC4", "RLE", <<97>>>>,
                <<Single(<<7, 8>>), "RC4", "NONE", <<98, 99>>>>,
                <<TreeLinks, "XOR", "NONE", <<97>>>> } }

\* a call before its first statement
NewCall(job) ==
    [job |-> job, phase |-> "start",
     files |-> IF job.kind = "pack" THEN Framed(scanDirectory(job.tree, NoFilter)) ELSE <<>>,
     next |-> 1,
     archive |-> IF job.kind = "pack" THEN <<>>
                 ELSE PackAlone(job.tree, job.mode, job.comp, job.pwd),
     rc4 |-> RC4new, mode |-> "NONE", rle |-> FALSE, pos |-> 0, good |-> TRUE,
     fsys |-> EmptyFS, failed |-> FALSE]

\* one RC4 object for every call (a static object): the one call 1 writes
SharedRc4(calls, c) == calls[1].rc4

\* the RC4 object a call works with: the local `RC4 rc4` of its own frame
CallRc4(calls, c) == calls[c].rc4

\* the other call has begun and not ended
OtherMidway(calls, c) == calls[3 - c].phase \notin {"start", "done"}

InitPar ==
    /\ source = Missing /\ filter = NoFilter /\ password = <<>>
    /\ encMode = "NONE" /\ compMode = "NONE"
    /\ pc = "par"
    /\ \E j1 \in ParJobs, j2 \in ParJobs :
           probe = [op |-> "par", calls |-> <<NewCall(j1), NewCall(j2)>>,
                    switched |-> FALSE]
    /\ Idle

\* call c takes a step that leaves it as `after`
ParStep(c, after) ==
    /\ probe' = [probe EXCEPT !.calls[c] = after,
                              !.switched = @ \/ OtherMidway(probe.calls, c)]
    /\ UNCHANGED <<inputVars, pc, packVars, damage, unpackVars>>

\* packFiles up to its loop
ParPackOpen(c) ==
    /\ pc = "par" /\ probe.calls[c].job.kind = "pack" /\ probe.calls[c].phase = "start"
    /\ \E me \in {probe.calls[c]} :
         ParStep(c, [me EXCEPT
             !.phase = "loop",
             !.archive = PackMagic(me.job.mode) \o <<PackCompFlag(me.job.comp)>>,
             !.rc4 = IF PackUsesRC4(me.job.mode, me.job.pwd)
                     THEN RC4init(CallRc4(probe.calls, c), me.job.pwd, 0)
                     ELSE CallRc4(probe.calls, c)])

\* one pass of the loop of packFiles
ParPackRecord(c) ==
    /\ pc = "par" /\ probe.calls[c].job.kind = "pack" /\ probe.calls[c].phase = "loop"
    /\ probe.calls[c].next <= Len(probe.calls[c].files)
    /\ \E me \in {probe.calls[c]} :
       \E fr \in {PackFrame(CallRc4(probe.calls, c), me.job.mode, me.job.comp, me.job.pwd,
                            me.files[me.next], LoadData(me.job.tree, me.files[me.next]),
                            Len(me.archive))} :
         ParStep(c, [me EXCEPT !.next = @ + 1, !.archive = @ \o fr.enc.out,
                               !.rc4 = fr.enc.rc4])

\* the loop of packFiles is over
ParPackClose(c) ==
    /\ pc = "par" /\ probe.calls[c].job.kind = "pack" /\ probe.calls[c].phase = "loop"
    /\ probe.calls[c].next > Len(probe.calls[c].files)
    /\ ParStep(c, [probe.calls[c] EXCEPT !.phase = "done"])

\* unpack up to its loop
ParUnpackOpen(c) ==
    /\ pc = "par" /\ probe.calls[c].job.kind = "unpack" /\ probe.calls[c].phase = "start"
    /\ \E me \in {probe.calls[c]} :
       \E h \in {ReadHeader(me.archive)} :
       \E mode \in {MagicMode(CStr(h.magic.buf))} :
         ParStep(c, [me EXCEPT
             !.phase = "loop", !.mode = mode, !.rle = (h.flag.buf[1] = 1),
             !.pos = h.flag.pos, !.good = h.flag.good,
             !.fsys = [@ EXCEPT !.root = TRUE],
             !.rc4 = IF mode = "RC4" THEN RC4init(CallRc4(probe.calls, c), me.job.pwd, 0)
                     ELSE CallRc4(probe.calls, c)])

\* one pass of the loop of unpack
ParUnpackFrame(c) ==
    /\ pc = "par" /\ probe.calls[c].job.kind = "unpack" /\ probe.calls[c].phase = "loop"
    /\ PeekNotEOF(probe.calls[c].archive, probe.calls[c])
    /\ \E me \in {probe.calls[c]} :
       \E d \in {DecodeFrame(me.archive, me.mode, me.job.pwd,
                             FrameStart(me.pos, me.good, CallRc4(probe.calls, c)), 0)} :
       \E m \in {FrameEffect(me.fsys, d, me.rle)} :
         ParStep(c, [me EXCEPT
             !.pos = d.pos, !.good = d.good, !.rc4 = d.rc4,
             !.fsys = IF d.thrown THEN @ ELSE m.fsys,
             !.failed = d.thrown \/ m.thrown,
             !.phase = IF d.thrown \/ m.thrown THEN "done" ELSE @])

\* the loop of unpack is over
ParUnpackDone(c) ==
    /\ pc = "par" /\ probe.calls[c].job.kind = "unpack" /\ probe.calls[c].phase = "loop"
    /\ ~PeekNotEOF(probe.calls[c].archive, probe.calls[c])
    /\ ParStep(c, [probe.calls[c] EXCEPT !.phase = "done"])

NextPar ==
    \E c \in {1, 2} :
        \/ ParPackOpen(c)
        \/ ParPackRecord(c)
        \/ ParPackClose(c)
        \/ ParUnpackOpen(c)
        \/ ParUnpackFrame(c)
        \/ ParUnpackDone(c)

SpecPar == InitPar /\ [][NextPar]_vars

\* C16: of two calls running at once on their own inputs and outputs, each
\* ends, under every interleaving, with the container or the destination
\* tree it produces when it runs alone.
C16_CallsIndependent ==
    probe.op = "par"
    => \A c \in {1, 2} :
         probe.calls[c].phase = "done"
         => IF probe.calls[c].job.kind = "pack"
            THEN probe.calls[c].archive =
                     PackAlone(probe.calls[c].job.tree, probe.calls[c].job.mode,
                               probe.calls[c].job.comp, probe.calls[c].job.pwd)
            ELSE [fsys |-> probe.calls[c].fsys, failed |-> probe.calls[c].failed] =
                     UnpackAlone(probe.calls[c].archive, probe.calls[c].job.pwd)

\* a pack and an unpack, both with RC4 and different passwords, have both
\* ended after steps of one fell between steps of the other
C16_Witness ==
    /\ probe.op = "par" /\ probe.switched
    /\ probe.calls[1].phase = "done" /\ probe.calls[2].phase = "done"
    /\ probe.calls[1].job.kind = "pack" /\ probe.calls[2].job.kind = "unpack"
    /\ probe.calls[1].job.mode = "RC4" /\ probe.calls[2].job.mode = "RC4"
    /\ probe.calls[1].job.pwd # probe.calls[2].job.pwd
    /\ ~probe.calls[2].failed /\ DOMAIN probe.calls[2].fsys.nodes # {}

\* the number of bytes the first j pairs of y stand for
RECURSIVE SumCounts(_, _)
SumCounts(y, j) == IF j = 0 THEN 0 ELSE SumCounts(y, j - 1) + y[2 * j - 1]

\* C17: rleDecompress expands each (runLength, value) pair, in order, to
\* runLength copies of value, a pair of runLength 0 to nothing, and ignores
\* a trailing byte without a partner.
C17_PairsExpanded ==
    probe.op = "rleDecompress"
    => /\ Len(probe.output) = SumCounts(probe.input, Len(probe.input) \div 2)
       /\ \A j \in 1..(Len(probe.input) \div 2) :
          \A k \in 1..probe.input[2 * j - 1] :
              probe.output[SumCounts(probe.input, j - 1) + k] = probe.input[2 * j]

\* an input of odd length with a pair of runLength 0 before a pair that
\* stands for bytes
C17_Witness ==
    /\ probe.op = "rleDecompress"
    /\ Len(probe.input) = 5
    /\ probe.input[1] = 0 /\ probe.input[3] > 0
    /\ probe.output = Run(probe.input[3], probe.input[4])

\* C19: the output of rleCompress is a sequence of pairs with runLength in
\* 1..255; two consecutive pairs carry the same value only when the first
\* has runLength 255; the empty input gives the empty output.
C19_CompressedForm ==
    probe.op = "rleCompress"
    => /\ Len(probe.output) % 2 = 0
       /\ \A j \in 1..(Len(probe.output) \div 2) :
              /\ probe.output[2 * j - 1] \in 1..255
              /\ (2 * j + 2 <= Len(probe.output)
                  /\ probe.output[2 * j] = probe.output[2 * j + 2])
                 => probe.output[2 * j - 1] = 255
       /\ probe.input = <<>> => probe.output = <<>>

\* a run of 300 bytes followed by another byte: a full pair, the rest of the
\* run, the last byte
C19_Witness ==
    /\ probe.op = "rleCompress"
    /\ probe.input = Run(300, 200) \o <<0>>
    /\ probe.output = <<255, 200, 45, 200, 1, 0>>

\* where frame f ends in the container when the fields of fixed width take
\* `fixed` bytes
FrameEnd(f, fixed) == wlog[f].at + fixed + Len(wlog[f].fields[3]) + Len(wlog[f].fields[7])

\* the frames of the container lie one after the other from the header on,
\* one per record whose type is not Other, in the order of the records, each
\* type(1) pathLen(8) path payloadLen(8) crc32(4) mode uid gid mtime(20)
\* payload before encryption, a directory's without payload
FramesWritten(fixed) ==
    /\ Len(wlog) = Len(Framed(files))
    /\ \A f \in 1..Len(wlog) :
         /\ wlog[f].rec = Framed(files)[f]
         /\ wlog[f].at = IF f = 1 THEN MagicLen + 1 ELSE FrameEnd(f - 1, fixed)
         /\ Len(wlog[f].fields[1]) = 1 /\ wlog[f].fields[2] = LEBytes(Len(wlog[f].fields[3]), 8)
         /\ wlog[f].fields[3] = wlog[f].rec.relPath
         /\ wlog[f].fields[4] = LEBytes(Len(wlog[f].fields[7]), 8)
         /\ Len(wlog[f].fields[5]) = 4 /\ Len(wlog[f].fields[6]) = 20
         /\ wlog[f].rec.type = "DIRECTORY" => wlog[f].fields[7] = <<>>
    /\ Len(archive) = IF wlog = <<>> THEN MagicLen + 1 ELSE FrameEnd(Len(wlog), fixed)

\* unpack has decoded the first frames of the container as they were
\* written, stands at the end of the last of them, has not failed, and has
\* ended only at the end of the container
FramesRead(fixed) ==
    /\ pc # "failed"
    /\ Len(rlog) <= Len(wlog)
    /\ \A k \in 1..Len(rlog) : rlog[k].fields = wlog[k].fields
    /\ inPos = IF rlog = <<>> THEN MagicLen + 1 ELSE FrameEnd(Len(rlog), fixed)
    /\ pc = "done" => Len(rlog) = Len(wlog) /\ inPos = Len(archive)

\* C18: pack writes one frame per record that is not Other, in order, in
\* the layout type(1) pathLen(8) path payloadLen(8) crc32(4) mode(4) uid(4)
\* gid(4) mtime(8) payload; unpack consumes 37 + pathLen + payloadLen bytes
\* per frame, so on an untampered container it stands at a frame boundary
\* after every frame, decodes exactly the frames written and ends at the end
\* of the stream.
C18_FrameStream ==
    /\ (pc = "packed" /\ damage = NoDamage) => FramesWritten(37)
    /\ (UnpackBegun /\ damage = NoDamage /\ upwd = password) => FramesRead(37)

\* ---------------------------------------------------------------------
\* unpack into a destination that already holds nodes
\* ---------------------------------------------------------------------

\* s -> x (dangling), a
TreeLinkFirst == [exists |-> TRUE, single |-> FALSE,
                  entries |-> <<Link(<<115>>, <<120>>, "none", <<>>), File(<<97>>, <<9>>)>>]

\* what the destination holds at the path s before unpack: nothing, a file,
\* a symlink, an empty directory, a directory holding a file or a directory
DestNodes ==
    { <<>>,
      (<<115>>) :> [kind |-> "file", data |-> <<>>],
      (<<115>>) :> [kind |-> "file", data |-> <<7>>],
      (<<115>>) :> [kind |-> "link", data |-> <<97>>],
      (<<115>>) :> [kind |-> "link", data |-> <<122>>],
      (<<115>>) :> [kind |-> "dir", data |-> <<>>],
      ((<<115>>) :> [kind |-> "dir", data |-> <<>>])
          @@ ((<<115, 47, 99>>) :> [kind |-> "file", data |-> <<7>>]),
      ((<<115>>) :> [kind |-> "dir", data |-> <<>>])
          @@ ((<<115, 47, 100>>) :> [kind |-> "dir", data |-> <<>>]) }

InitDest ==
    /\ source \in {TreeLinks, TreeLinkFirst} /\ filter = NoFilter
    /\ password = <<>> /\ encMode = "NONE" /\ compMode \in CompModes
    /\ pc = "start"
    /\ probe = [op |-> "none"]
    /\ files = <<>> /\ next = 1 /\ archive = <<>> /\ wrc4 = RC4new /\ wlog = <<>>
    /\ damage = NoDamage
    /\ upwd = <<>> /\ uencMode = "NONE" /\ isRLE = FALSE /\ inPos = 0 /\ inGood = TRUE
    /\ rrc4 = RC4new /\ rlog = <<>> /\ warnings = <<>> /\ metaLog = <<>> /\ err = ""
    /\ \E nodes \in DestNodes : fsys = [root |-> TRUE, nodes |-> nodes]

NextDest ==
    \/ Scan
    \/ PackOpen
    \/ PackRecord
    \/ PackClose
    \/ UnpackOpen
    \/ UnpackFrame
    \/ UnpackDone

SpecDest == InitDest /\ [][NextDest]_vars

\* the frame unpack decoded last is the frame of a symlink
LastIsSymlink ==
    /\ UnpackBegun /\ damage = NoDamage
    /\ rlog # <<>> /\ Len(rlog) <= Len(wlog)
    /\ wlog[Len(rlog)].rec.type = "SYMLINK"

\* C20: when unpack materialises a Symlink frame at a path where a node of
\* any kind exists (a file, a symlink, an empty or non-empty directory), the
\* node is removed, a symlink with the recorded target is at that path, and
\* unpack goes on with the next frame.
C20_SymlinkReplaces ==
    LastIsSymlink
    => /\ pc # "failed"
       /\ NodePath(wlog[Len(rlog)].rec.relPath) \in DOMAIN fsys.nodes
       /\ fsys.nodes[NodePath(wlog[Len(rlog)].rec.relPath)] =
              [kind |-> "link", data |-> wlog[Len(rlog)].loaded]
       /\ Below(fsys.nodes, NodePath(wlog[Len(rlog)].rec.relPath)) = {}

\* C21 as stated: a Symlink record that passes the name, path and type
\* tests is accepted whatever minSize, maxSize and startTime are.
C21_SymlinkExemptBoth ==
    (probe.op = "checkFilter" /\ probe.record.type = "SYMLINK")
    => (probe.result <=> NamePathType(probe.record, probe.opts))

\* C21: a Symlink record is exempt from the size test only: checkFilter
\* accepts it exactly when it passes the name, path and type tests and
\* startTime is unset or not above its mtime, whatever minSize and maxSize
\* are.
C21_SymlinkExemptSize ==
    (probe.op = "checkFilter" /\ probe.record.type = "SYMLINK")
    => (probe.result <=> /\ NamePathType(probe.record, probe.opts)
                         /\ probe.opts.startTime > 0
                               => probe.record.mtime >= probe.opts.startTime)

\* a symlink below minSize has been accepted under a startTime it meets
C21_Witness ==
    /\ probe.op = "checkFilter" /\ probe.record.type = "SYMLINK"
    /\ probe.opts.minSize > probe.record.size
    /\ probe.opts.startTime > 0 /\ probe.record.mtime >= probe.opts.startTime
    /\ probe.result

\* ---------------------------------------------------------------------
\* unpack of a container that pack did not write
\* ---------------------------------------------------------------------

\* a record with the given type, stored path and payload
CraftedRecord(type, relPath, data) ==
    [relPath |-> relPath, absPath |-> <<>>, type |-> type, size |-> Len(data),
     linkTarget |-> IF type = "SYMLINK" THEN data ELSE <<>>,
     mode |-> DefaultMode, uid |-> 0, gid |-> 0, mtime |-> 9, data |-> data]

\* a, d/, ../x, /x, ../d/, l -> /x, l (a file), ../s -> a
CraftedRecords ==
    { CraftedRecord("REGULAR", <<97>>, <<7>>),
      CraftedRecord("DIRECTORY", <<100>>, <<>>),
      CraftedRecord("REGULAR", <<46, 46, 47, 120>>, <<7>>),
      CraftedRecord("REGULAR", <<47, 120>>, <<7>>),
      CraftedRecord("DIRECTORY", <<46, 46, 47, 100>>, <<>>),
      CraftedRecord("SYMLINK", <<108>>, <<47, 120>>),
      CraftedRecord("REGULAR", <<108>>, <<8>>),
      CraftedRecord("SYMLINK", <<46, 46, 47, 115>>, <<97>>) }

\* the frames of the records recs in the container format, without cipher
\* and compression, after the bytes arch
RECURSIVE CraftedFrames(_, _, _)
CraftedFrames(recs, k, arch) ==
    IF k > Len(recs) THEN arch
    ELSE CraftedFrames(recs, k + 1,
             arch \o PackFrame(RC4new, "NONE", "NONE", <<>>, recs[k], recs[k].data,
                               Len(arch)).enc.out)

\* a container file of one or two frames is at packFile when unpack is called
InitCraft ==
    /\ source = Missing /\ filter = NoFilter /\ password = <<>>
    /\ encMode = "NONE" /\ compMode = "NONE"
    /\ pc = "packed"
    /\ probe = [op |-> "none"]
    /\ files = <<>> /\ next = 1 /\ wrc4 = RC4new /\ wlog = <<>>
    /\ \E recs \in {<<r>> : r \in CraftedRecords}
                       \cup {<<r1, r2>> : r1 \in CraftedRecords, r2 \in CraftedRecords} :
           archive = CraftedFrames(recs, 1, MagicNone \o <<0>>)
    /\ damage = NoDamage
    /\ upwd = <<>> /\ uencMode = "NONE" /\ isRLE = FALSE /\ inPos = 0 /\ inGood = TRUE
    /\ rrc4 = RC4new /\ rlog = <<>> /\ fsys = EmptyFS /\ warnings = <<>>
    /\ metaLog = <<>> /\ err = ""

NextCraft ==
    \/ UnpackOpen
    \/ UnpackFrame
    \/ UnpackDone

SpecCraft == InitCraft /\ [][NextCraft]_vars

\* following the components of p from a directory `depth` levels below
\* destPath leads above destPath
RECURSIVE Climbs(_, _)
Climbs(p, depth) ==
    IF p = <<>> THEN FALSE
    ELSE LET cut == IF SlashPositions(p) = {} THEN Len(p) + 1
                    ELSE CHOOSE k \in SlashPositions(p) :
                             \A m \in SlashPositions(p) : k <= m
             first == SubSeq(p, 1, cut - 1)
             rest == SubSeq(p, cut + 1, Len(p))
         IN  IF first = DotDot
             THEN depth = 0 \/ Climbs(rest, depth - 1)
             ELSE IF first = <<>> \/ first = <<46>> THEN Climbs(rest, depth)
             ELSE Climbs(rest, depth + 1)

\* destRoot / p names a path inside destPath: p is not absolute and does not
\* lead above destPath
InsideDest(p) == ~(p # <<>> /\ p[1] = Slash) /\ ~Climbs(p, 0)

\* C22: every node unpack creates, replaces or removes, and every path whose
\* mode, owner or mtime it changes, lies inside destPath, whatever the
\* container holds, stored paths that are absolute or contain '..' included.
C22_InsideDestPath ==
    /\ \A p \in DOMAIN fsys.nodes : InsideDest(p)
    /\ \A k \in 1..Len(metaLog) : InsideDest(NodePath(metaLog[k].path))

\* ---------------------------------------------------------------------
\* pack and unpack with the stored crc32 of a frame changed in between
\* ---------------------------------------------------------------------

\* the first and the last byte of the crc32 field of every frame
CrcPositions ==
    UNION {{wlog[f].at + Len(wlog[f].fields[1]) + Len(wlog[f].fields[2])
                + Len(wlog[f].fields[3]) + Len(wlog[f].fields[4]) + k : k \in {1, 4}} :
           f \in 1..Len(wlog)}

\* one byte of a stored crc32 is changed
TamperCrc ==
    /\ pc = "packed" /\ damage.kind = "none"
    /\ \E at \in CrcPositions, d \in TamperDeltas :
           /\ archive' = [archive EXCEPT ![at] = XorByte(archive[at], d)]
           /\ damage' = [kind |-> "crc", at |-> at]
    /\ UNCHANGED <<inputVars, pc, files, next, wrc4, wlog, unpackVars, probe>>

NextCrc ==
    \/ Scan
    \/ PackOpen
    \/ PackRecord
    \/ PackClose
    \/ TamperPayload
    \/ TamperCrc
    \/ UnpackOpen
    \/ UnpackFrame
    \/ UnpackDone

SpecCrc == Init /\ [][NextCrc]_vars

\* the number of frames unpack has decoded to their end
Decoded == IF pc = "failed" /\ err = "bad_alloc" THEN Len(rlog) - 1 ELSE Len(rlog)

\* the stored paths of those of the first k frames decoded that have
\* payloadLen > 0 and a payload whose CRC32 is not the stored crc32
RECURSIVE Warned(_)
Warned(k) ==
    IF k = 0 THEN <<>>
    ELSE IF /\ DecodeLen(rlog[k].fields[4]) > 0
            /\ CRC32calculate(rlog[k].fields[7]) # rlog[k].fields[5]
         THEN Append(Warned(k - 1), rlog[k].fields[3])
         ELSE Warned(k - 1)

\* C23: unpack reports an integrity warning for a frame exactly when
\* payloadLen > 0 and the CRC32 of the decrypted, still compressed payload
\* is not the stored crc32; for a frame with payloadLen 0 pack stores the
\* crc32 0, the CRC32 of the empty sequence, and unpack compares nothing
\* whatever the stored crc32 is.
C23_WarningIff ==
    /\ warnings = Warned(Decoded)
    /\ CRC32calculate(<<>>) = <<0, 0, 0, 0>>
    /\ \A f \in 1..Len(wlog) :
           wlog[f].fields[7] = <<>>
           => wlog[f].fields[4] = LEBytes(0, 8) /\ wlog[f].fields[5] = <<0, 0, 0, 0>>

\* unpack has decoded, without a warning, a frame of payloadLen 0 whose
\* stored crc32 is not 0, and has warned for a frame with a payload
C23_Witness ==
    /\ pc = "done" /\ damage.kind = "crc"
    /\ \E k \in 1..Len(rlog) :
           /\ rlog[k].fields[4] = LEBytes(0, 8) /\ rlog[k].fields[5] # <<0, 0, 0, 0>>
           /\ \A w \in 1..Len(warnings) : warnings[w] # rlog[k].fields[3]
    /\ Len(rlog) = Len(wlog)

\* ---------------------------------------------------------------------
\* BackupEngine::verify.  probe holds one call: the lines of index.txt
\* (indexExists says whether the file is there), the backup directory as a
\* function from paths to what is there, and the locals of verify.  A node
\* is [state, data]: state is absent, file, unreadable (an ifstream does not
\* open on it) or error (fs::exists throws on it).  errorMsg is the sequence
\* of lines written to the stringstream, each a non-empty text.
\* ---------------------------------------------------------------------

\* ss << std::hex << std::uppercase << a digit
HexDigit(n) == IF n < 10 THEN 48 + n ELSE 55 + n

\* std::setw(8) << std::setfill('0') << crc: eight digits, the highest first
Hex8(crc) ==
    <<HexDigit(crc[4] \div 16), HexDigit(crc[4] % 16),
      HexDigit(crc[3] \div 16), HexDigit(crc[3] % 16),
      HexDigit(crc[2] \div 16), HexDigit(crc[2] % 16),
      HexDigit(crc[1] \div 16), HexDigit(crc[1] % 16)>>

\* CRC32::getFileCRC(filepath)
getFileCRC(node) ==
    IF node.state # "file" THEN <<48, 48, 48, 48, 48, 48, 48, 48>>
    ELSE Hex8(CRC32calculate(node.data))

\* '|'
Delimiter == 124

\* line.find('|'): the position of the first delimiter, 0 for npos
DelimiterPos(line) ==
    IF \E k \in 1..Len(line) : line[k] = Delimiter
    THEN CHOOSE k \in 1..Len(line) :
             line[k] = Delimiter /\ \A m \in 1..(k - 1) : line[m] # Delimiter
    ELSE 0

\* the body of the while loop of verify for one line: the locals afterwards
VerifyLine(dir, line, loc) ==
    IF line = <<>> \/ DelimiterPos(line) = 0 THEN loc
    ELSE LET relPath == SubSeq(line, 1, DelimiterPos(line) - 1)
             expectedCRC == SubSeq(line, DelimiterPos(line) + 1, Len(line))
             node == IF relPath \in DOMAIN dir THEN dir[relPath]
                     ELSE [state |-> "absent", data |-> <<>>]
         IN  IF node.state = "error"
             THEN [loc EXCEPT !.errorCount = @ + 1]
             ELSE IF node.state = "absent"
             THEN [errorMsg |-> Append(loc.errorMsg, <<"lost", relPath>>),
                   errorCount |-> loc.errorCount + 1]
             ELSE IF getFileCRC(node) # expectedCRC
             THEN [errorMsg |-> Append(loc.errorMsg, <<"changed", relPath>>),
                   errorCount |-> loc.errorCount + 1]
             ELSE loc

\* the index lines: an empty line, one without delimiter, a and b with the
\* CRC of <<7>>, a with the CRC getFileCRC gives for a file it cannot open
IndexLines ==
    { <<>>, <<120>>,
      <<97, Delimiter>> \o Hex8(CRC32calculate(<<7>>)),
      <<98, Delimiter>> \o Hex8(CRC32calculate(<<7>>)),
      <<97, Delimiter>> \o <<48, 48, 48, 48, 48, 48, 48, 48>> }

\* what is at a path of the backup directory
VerifyNodes ==
    { [state |-> "absent", data |-> <<>>], [state |-> "file", data |-> <<7>>],
      [state |-> "file", data |-> <<8>>], [state |-> "unreadable", data |-> <<7>>],
      [state |-> "error", data |-> <<>>] }

InitVerify ==
    /\ source = Missing /\ filter = NoFilter /\ password = <<>>
    /\ encMode = "NONE" /\ compMode = "NONE"
    /\ pc = "verify"
    /\ \E lines \in {<<>>} \cup {<<l>> : l \in IndexLines}
                       \cup {<<l1, l2>> : l1 \in IndexLines, l2 \in IndexLines},
          na \in VerifyNodes, nb \in VerifyNodes, there \in BOOLEAN :
           /\ there \/ lines = <<>>
           /\ probe = [op |-> "verify", indexExists |-> there, index |-> lines,
                       dir |-> (<<97>> :> na) @@ (<<98>> :> nb),
                       line |-> 0, errorMsg |-> <<>>, errorCount |-> 0,
                       result |-> <<>>]
    /\ Idle

\* verify up to its loop
VerifyOpen ==
    /\ pc = "verify" /\ probe.line = 0
    /\ IF ~probe.indexExists
       THEN /\ probe' = [probe EXCEPT !.result = <<<<"no index", <<>>>>>>]
            /\ pc' = "verified"
       ELSE /\ probe' = [probe EXCEPT !.line = 1]
            /\ pc' = pc
    /\ UNCHANGED <<inputVars, packVars, damage, unpackVars>>

\* one pass of the while loop of verify
VerifyStep ==
    /\ pc = "verify" /\ probe.line >= 1 /\ probe.line <= Len(probe.index)
    /\ \E loc \in {VerifyLine(probe.dir, probe.index[probe.line],
                              [errorMsg |-> probe.errorMsg,
                               errorCount |-> probe.errorCount])} :
           probe' = [probe EXCEPT !.line = @ + 1, !.errorMsg = loc.errorMsg,
                                  !.errorCount = loc.errorCount]
    /\ UNCHANGED <<inputVars, pc, packVars, damage, unpackVars>>

\* return (errorCount > 0) ? errorMsg.str() : ""
VerifyReturn ==
    /\ pc = "verify" /\ probe.line > Len(probe.index)
    /\ probe' = [probe EXCEPT !.result = IF probe.errorCount > 0 THEN probe.errorMsg
                                         ELSE <<>>]
    /\ pc' = "verified"
    /\ UNCHANGED <<inputVars, packVars, damage, unpackVars>>

NextVerify ==
    \/ VerifyOpen
    \/ VerifyStep
    \/ VerifyReturn

SpecVerify == InitVerify /\ [][NextVerify]_vars

\* the files index.txt lists: the path and the CRC of every line with a
\* delimiter
Listed ==
    { <<SubSeq(probe.index[k], 1, DelimiterPos(probe.index[k]) - 1),
        SubSeq(probe.index[k], DelimiterPos(probe.index[k]) + 1, Len(probe.index[k]))>> :
      k \in {n \in 1..Len(probe.index) : DelimiterPos(probe.index[n]) > 0} }

\* the listed file is there, can be read, and its bytes have the indexed CRC
ListedFileSound(entry) ==
    /\ entry[1] \in DOMAIN probe.dir
    /\ probe.dir[entry[1]].state = "file"
    /\ Hex8(CRC32calculate(probe.dir[entry[1]].data)) = entry[2]

\* C24: verify returns a non-empty message whenever a file listed in
\* index.txt is missing, has a CRC other than the indexed one or raises an
\* error while it is checked, and the empty string only when every listed
\* file exists and matches its indexed CRC.
C24_VerifyReports ==
    (probe.op = "verify" /\ pc = "verified" /\ probe.indexExists)
    => (probe.result = <<>> => \A entry \in Listed : ListedFileSound(entry))

\* ---------------------------------------------------------------------
\* C_VerifySimple called by two threads.  probe holds the one object the
\* calls share, g_lastVerifyMsg, and for each call its argument (job), its
\* position (at), the string verify returned to it (temp) and what its
\* caller read through the pointer returned (seen).
\* ---------------------------------------------------------------------

\* the while loop of verify from line k on
RECURSIVE VerifyFrom(_, _, _, _)
VerifyFrom(dir, index, k, loc) ==
    IF k > Len(index) THEN loc
    ELSE VerifyFrom(dir, index, k + 1, VerifyLine(dir, index[k], loc))

\* BackupEngine::verify(destPath)
verify(job) ==
    IF ~job.indexExists THEN <<<<"no index", <<>>>>>>
    ELSE LET loc == VerifyFrom(job.dir, job.index, 1, [errorMsg |-> <<>>, errorCount |-> 0])
         IN  IF loc.errorCount > 0 THEN loc.errorMsg ELSE <<>>

\* the backup directories verified: one intact, one with a lost file, one
\* with a changed file, one without index.txt
BridgeJobs ==
    { [indexExists |-> TRUE, index |-> <<<<97, Delimiter>> \o Hex8(CRC32calculate(<<7>>))>>,
       dir |-> (<<97>> :> [state |-> "file", data |-> <<7>>])],
      [indexExists |-> TRUE, index |-> <<<<97, Delimiter>> \o Hex8(CRC32calculate(<<7>>))>>,
       dir |-> (<<97>> :> [state |-> "absent", data |-> <<>>])],
      [indexExists |-> TRUE, index |-> <<<<98, Delimiter>> \o Hex8(CRC32calculate(<<7>>))>>,
       dir |-> (<<98>> :> [state |-> "file", data |-> <<8>>])],
      [indexExists |-> FALSE, index |-> <<>>, dir |-> <<>>] }

\* what a string holds that two threads assigned at once, and what is read
\* through a pointer to a buffer the string has left
Torn == <<<<"torn", <<>>>>>>

InitBridge ==
    /\ source = Missing /\ filter = NoFilter /\ password = <<>>
    /\ encMode = "NONE" /\ compMode = "NONE"
    /\ pc = "bridge"
    /\ \E j1 \in BridgeJobs, j2 \in BridgeJobs :
           /\ j1 # j2
           /\ probe = [op |-> "bridge", g_lastVerifyMsg |-> <<>>,
                       job |-> <<j1, j2>>, at |-> <<"call", "call">>,
                       temp |-> <<<<>>, <<>>>>, seen |-> <<<<>>, <<>>>>,
                       raced |-> FALSE, stale |-> <<FALSE, FALSE>>]
    /\ Idle

\* BackupEngine::verify(dest) returns its string
BridgeVerify(c) ==
    /\ pc = "bridge" /\ probe.at[c] = "call"
    /\ probe' = [probe EXCEPT !.at[c] = "verified", !.temp[c] = verify(probe.job[c])]
    /\ UNCHANGED <<inputVars, pc, packVars, damage, unpackVars>>

\* g_lastVerifyMsg = ... begins
BridgeAssignBegin(c) ==
    /\ pc = "bridge" /\ probe.at[c] = "verified"
    /\ probe' = [probe EXCEPT !.at[c] = "assigning",
                              !.raced = @ \/ probe.at[3 - c] = "assigning"]
    /\ UNCHANGED <<inputVars, pc, packVars, damage, unpackVars>>

\* g_lastVerifyMsg = ... ends and C_VerifySimple returns c_str(); two
\* assignments at once are a data race
BridgeAssignEnd(c) ==
    /\ pc = "bridge" /\ probe.at[c] = "assigning"
    /\ \E content \in IF probe.raced THEN {probe.temp[1], probe.temp[2], Torn}
                      ELSE {probe.temp[c]} :
           probe' = [probe EXCEPT
               !.at[c] = "returned",
               !.g_lastVerifyMsg = content,
               !.raced = @ /\ probe.at[3 - c] = "assigning",
               !.stale[3 - c] = @ \/ probe.at[3 - c] = "returned"]
    /\ UNCHANGED <<inputVars, pc, packVars, damage, unpackVars>>

\* the caller reads the message through the pointer it was given; the
\* pointer dangles when the string was assigned after the return
BridgeRead(c) ==
    /\ pc = "bridge" /\ probe.at[c] = "returned"
    /\ \E content \in IF probe.stale[c] THEN {probe.g_lastVerifyMsg, Torn}
                      ELSE {probe.g_lastVerifyMsg} :
           probe' = [probe EXCEPT !.at[c] = "read", !.seen[c] = content]
    /\ UNCHANGED <<inputVars, pc, packVars, damage, unpackVars>>

NextBridge ==
    \E c \in {1, 2} :
        \/ BridgeVerify(c)
        \/ BridgeAssignBegin(c)
        \/ BridgeAssignEnd(c)
        \/ BridgeRead(c)

SpecBridge == InitBridge /\ [][NextBridge]_vars

\* C25: of two C_VerifySimple calls on different backup directories running
\* at once, each caller reads the message of its own directory: never the
\* other call's message, never a buffer being rewritten.
C25_OwnMessage ==
    probe.op = "bridge"
    => \A c \in {1, 2} : probe.at[c] = "read" => probe.seen[c] = verify(probe.job[c])
====
